---------------------------- MODULE Spec2Model ----------------------------
(***************************************************************************)
(* Switch catalog (src/app.py): load_catalog, filter_catalog,              *)
(* Switch.matches_keyword, answer_question and format_table, as the        *)
(* command-line main() and the form of src/web_app.py drive them.          *)
(*                                                                         *)
(* Text is a sequence of one-character strings, so that lower(), "in" and  *)
(* " ".join() are computed character by character.  A Python value whose   *)
(* type is not fixed by the code (an argparse option that may be None, a   *)
(* value read from a JSON document) is a tagged record [t |-> type, ...].  *)
(***************************************************************************)
EXTENDS Integers, Sequences, FiniteSets, TLC

\* ------------------------------------------------------------------------
\* Bounds of the model
\* ------------------------------------------------------------------------

\* Longest external catalog document (number of JSON objects in the array).
MaxCatalog == 2

\* Largest number of filter options given on one command line.
MaxCriteria == 2

\* ------------------------------------------------------------------------
\* Python values
\* ------------------------------------------------------------------------

None == [t |-> "None"]
PyStr(s) == [t |-> "str", v |-> s]
PyInt(n) == [t |-> "int", v |-> n]
PyBool(b) == [t |-> "bool", v |-> b]
\* A float with one decimal digit, held in tenths: PyFloat(245) is 24.5.
PyFloat(tenths) == [t |-> "float", v |-> tenths]
PyList(xs) == [t |-> "list", v |-> xs]
\* A dict, insertion-ordered: the sequence of its <<key, value>> pairs.
PyDict(kvs) == [t |-> "dict", v |-> kvs]

\* Truth value of a Python object, as "if x", "x and ...", "x or ..." and
\* bool(x) test it.
bool(x) ==
  CASE x.t = "None" -> FALSE
    [] x.t = "bool" -> x.v
    [] x.t = "int" -> x.v # 0
    [] x.t = "float" -> x.v # 0
    [] x.t = "str" -> Len(x.v) > 0
    [] x.t = "list" -> Len(x.v) > 0
    [] x.t = "dict" -> Len(x.v) > 0

\* ------------------------------------------------------------------------
\* Text
\* ------------------------------------------------------------------------

LowerMap ==
  [ A |-> "a", B |-> "b", C |-> "c", D |-> "d", E |-> "e", F |-> "f", G |-> "g",
    H |-> "h", I |-> "i", J |-> "j", K |-> "k", L |-> "l", M |-> "m", N |-> "n",
    O |-> "o", P |-> "p", Q |-> "q", R |-> "r", S |-> "s", T |-> "t", U |-> "u",
    V |-> "v", W |-> "w", X |-> "x", Y |-> "y", Z |-> "z" ]

\* str.lower()
lower(s) == [i \in 1..Len(s) |-> IF s[i] \in DOMAIN LowerMap THEN LowerMap[s[i]] ELSE s[i]]

\* needle in haystack
In(needle, haystack) ==
  \E i \in 0..(Len(haystack) - Len(needle)) :
     SubSeq(haystack, i + 1, i + Len(needle)) = needle

\* sep.join(parts)
RECURSIVE join(_, _)
join(sep, parts) ==
  IF parts = <<>> THEN <<>>
  ELSE IF Len(parts) = 1 THEN parts[1]
  ELSE parts[1] \o sep \o join(sep, Tail(parts))

Digits == <<"0","1","2","3","4","5","6","7","8","9">>

\* str(n) of an int
RECURSIVE str(_)
str(n) ==
  IF n < 0 THEN <<"-">> \o str(0 - n)
  ELSE IF n < 10 THEN <<Digits[n + 1]>>
  ELSE str(n \div 10) \o <<Digits[(n % 10) + 1]>>

\* ------------------------------------------------------------------------
\* Built-in command templates and catalog
\* ------------------------------------------------------------------------

CISCO_CLI ==
  <<
    \* VLAN configuration
    << <<"V","L","A","N"," ","c","o","n","f","i","g","u","r","a","t","i","o","n">>,
       <<
         \* configure terminal
         <<"c","o","n","f","i","g","u","r","e"," ","t","e","r","m","i","n","a","l">>,
         \* vlan 10
         <<"v","l","a","n"," ","1","0">>,
         \* name USERS
         <<"n","a","m","e"," ","U","S","E","R","S">>,
         \* interface gig1/0/1
         <<"i","n","t","e","r","f","a","c","e"," ","g","i","g","1","/","0","/","1">>,
         \* switchport mode access
         <<"s","w","i","t","c","h","p","o","r","t"," ","m","o","d","e"," ","a","c","c","e","s",
         "s">>,
         \* switchport access vlan 10
         <<"s","w","i","t","c","h","p","o","r","t"," ","a","c","c","e","s","s"," ","v","l","a",
         "n"," ","1","0">>,
         \* spanning-tree portfast
         <<"s","p","a","n","n","i","n","g","-","t","r","e","e"," ","p","o","r","t","f","a","s",
         "t">>,
         \* end
         <<"e","n","d">>,
         \* write memory
         <<"w","r","i","t","e"," ","m","e","m","o","r","y">>
       >> >>,
    \* Uplink trunk (example)
    << <<"U","p","l","i","n","k"," ","t","r","u","n","k"," ","(","e","x","a","m","p","l","e",
       ")">>,
       <<
         \* configure terminal
         <<"c","o","n","f","i","g","u","r","e"," ","t","e","r","m","i","n","a","l">>,
         \* interface tengig1/1/1
         <<"i","n","t","e","r","f","a","c","e"," ","t","e","n","g","i","g","1","/","1","/","1">>,
         \* description Uplink-to-core
         <<"d","e","s","c","r","i","p","t","i","o","n"," ","U","p","l","i","n","k","-","t","o",
         "-","c","o","r","e">>,
         \* switchport mode trunk
         <<"s","w","i","t","c","h","p","o","r","t"," ","m","o","d","e"," ","t","r","u","n","k">>,
         \* switchport trunk allowed vlan 10,20,30
         <<"s","w","i","t","c","h","p","o","r","t"," ","t","r","u","n","k"," ","a","l","l","o",
         "w","e","d"," ","v","l","a","n"," ","1","0",",","2","0",",","3","0">>,
         \* end
         <<"e","n","d">>,
         \* write memory
         <<"w","r","i","t","e"," ","m","e","m","o","r","y">>
       >> >>
  >>

JUNIPER_CLI ==
  <<
    \* VLAN configuration
    << <<"V","L","A","N"," ","c","o","n","f","i","g","u","r","a","t","i","o","n">>,
       <<
         \* configure
         <<"c","o","n","f","i","g","u","r","e">>,
         \* set vlans USERS vlan-id 10
         <<"s","e","t"," ","v","l","a","n","s"," ","U","S","E","R","S"," ","v","l","a","n","-",
         "i","d"," ","1","0">>,
         \* set interfaces ge-0/0/1 unit 0 family ethernet-switching vlan members USERS
         <<"s","e","t"," ","i","n","t","e","r","f","a","c","e","s"," ","g","e","-","0","/","0",
         "/","1"," ","u","n","i","t"," ","0"," ","f","a","m","i","l","y"," ","e","t","h","e",
         "r","n","e","t","-","s","w","i","t","c","h","i","n","g"," ","v","l","a","n"," ","m",
         "e","m","b","e","r","s"," ","U","S","E","R","S">>,
         \* commit and-quit
         <<"c","o","m","m","i","t"," ","a","n","d","-","q","u","i","t">>
       >> >>,
    \* Uplink trunk (example)
    << <<"U","p","l","i","n","k"," ","t","r","u","n","k"," ","(","e","x","a","m","p","l","e",
       ")">>,
       <<
         \* configure
         <<"c","o","n","f","i","g","u","r","e">>,
         \* set interfaces xe-0/1/0 unit 0 family ethernet-switching port-mode trunk
         <<"s","e","t"," ","i","n","t","e","r","f","a","c","e","s"," ","x","e","-","0","/","1",
         "/","0"," ","u","n","i","t"," ","0"," ","f","a","m","i","l","y"," ","e","t","h","e",
         "r","n","e","t","-","s","w","i","t","c","h","i","n","g"," ","p","o","r","t","-","m",
         "o","d","e"," ","t","r","u","n","k">>,
         \* set interfaces xe-0/1/0 unit 0 family ethernet-switching vlan members [ USERS VOICE ]
         <<"s","e","t"," ","i","n","t","e","r","f","a","c","e","s"," ","x","e","-","0","/","1",
         "/","0"," ","u","n","i","t"," ","0"," ","f","a","m","i","l","y"," ","e","t","h","e",
         "r","n","e","t","-","s","w","i","t","c","h","i","n","g"," ","v","l","a","n"," ","m",
         "e","m","b","e","r","s"," ","["," ","U","S","E","R","S"," ","V","O","I","C","E"," ",
         "]">>,
         \* commit and-quit
         <<"c","o","m","m","i","t"," ","a","n","d","-","q","u","i","t">>
       >> >>
  >>

ARUBA_AOSS_CLI ==
  <<
    \* VLAN configuration (AOS-S/ProCurve style)
    << <<"V","L","A","N"," ","c","o","n","f","i","g","u","r","a","t","i","o","n"," ","(","A",
       "O","S","-","S","/","P","r","o","C","u","r","v","e"," ","s","t","y","l","e",")">>,
       <<
         \* configure terminal
         <<"c","o","n","f","i","g","u","r","e"," ","t","e","r","m","i","n","a","l">>,
         \* vlan 10
         <<"v","l","a","n"," ","1","0">>,
         \* name USERS
         <<"n","a","m","e"," ","U","S","E","R","S">>,
         \* untagged 1-12
         <<"u","n","t","a","g","g","e","d"," ","1","-","1","2">>,
         \* exit
         <<"e","x","i","t">>,
         \* write memory
         <<"w","r","i","t","e"," ","m","e","m","o","r","y">>
       >> >>,
    \* Uplink (tagged VLANs)
    << <<"U","p","l","i","n","k"," ","(","t","a","g","g","e","d"," ","V","L","A","N","s",")">>,
       <<
         \* configure terminal
         <<"c","o","n","f","i","g","u","r","e"," ","t","e","r","m","i","n","a","l">>,
         \* interface 25
         <<"i","n","t","e","r","f","a","c","e"," ","2","5">>,
         \* name Uplink-to-core
         <<"n","a","m","e"," ","U","p","l","i","n","k","-","t","o","-","c","o","r","e">>,
         \* tagged 10,20
         <<"t","a","g","g","e","d"," ","1","0",",","2","0">>,
         \* exit
         <<"e","x","i","t">>,
         \* write memory
         <<"w","r","i","t","e"," ","m","e","m","o","r","y">>
       >> >>
  >>

ARUBA_CX_CLI ==
  <<
    \* VLAN configuration (AOS-CX style)
    << <<"V","L","A","N"," ","c","o","n","f","i","g","u","r","a","t","i","o","n"," ","(","A",
       "O","S","-","C","X"," ","s","t","y","l","e",")">>,
       <<
         \* configure terminal
         <<"c","o","n","f","i","g","u","r","e"," ","t","e","r","m","i","n","a","l">>,
         \* vlan 10
         <<"v","l","a","n"," ","1","0">>,
         \* name USERS
         <<"n","a","m","e"," ","U","S","E","R","S">>,
         \* interface 1/1/1
         <<"i","n","t","e","r","f","a","c","e"," ","1","/","1","/","1">>,
         \* no shutdown
         <<"n","o"," ","s","h","u","t","d","o","w","n">>,
         \* vlan access 10
         <<"v","l","a","n"," ","a","c","c","e","s","s"," ","1","0">>,
         \* end
         <<"e","n","d">>,
         \* write memory
         <<"w","r","i","t","e"," ","m","e","m","o","r","y">>
       >> >>,
    \* Uplink trunk (AOS-CX)
    << <<"U","p","l","i","n","k"," ","t","r","u","n","k"," ","(","A","O","S","-","C","X",")">>,
       <<
         \* configure terminal
         <<"c","o","n","f","i","g","u","r","e"," ","t","e","r","m","i","n","a","l">>,
         \* interface 1/1/49
         <<"i","n","t","e","r","f","a","c","e"," ","1","/","1","/","4","9">>,
         \* description Uplink-to-core
         <<"d","e","s","c","r","i","p","t","i","o","n"," ","U","p","l","i","n","k","-","t","o",
         "-","c","o","r","e">>,
         \* no shutdown
         <<"n","o"," ","s","h","u","t","d","o","w","n">>,
         \* vlan trunk native 1
         <<"v","l","a","n"," ","t","r","u","n","k"," ","n","a","t","i","v","e"," ","1">>,
         \* vlan trunk allowed 10,20,30
         <<"v","l","a","n"," ","t","r","u","n","k"," ","a","l","l","o","w","e","d"," ","1","0",
         ",","2","0",",","3","0">>,
         \* end
         <<"e","n","d">>,
         \* write memory
         <<"w","r","i","t","e"," ","m","e","m","o","r","y">>
       >> >>
  >>

UNIFI_CLI ==
  <<
    \* Controller configuration
    << <<"C","o","n","t","r","o","l","l","e","r"," ","c","o","n","f","i","g","u","r","a","t",
       "i","o","n">>,
       <<
         \* Managed via UniFi Network application (GUI/API).
         <<"M","a","n","a","g","e","d"," ","v","i","a"," ","U","n","i","F","i"," ","N","e","t",
         "w","o","r","k"," ","a","p","p","l","i","c","a","t","i","o","n"," ","(","G","U","I",
         "/","A","P","I",")",".">>,
         \* SSH is mostly for diagnostics; config is normally via controller profiles.
         <<"S","S","H"," ","i","s"," ","m","o","s","t","l","y"," ","f","o","r"," ","d","i","a",
         "g","n","o","s","t","i","c","s",";"," ","c","o","n","f","i","g"," ","i","s"," ","n",
         "o","r","m","a","l","l","y"," ","v","i","a"," ","c","o","n","t","r","o","l","l","e",
         "r"," ","p","r","o","f","i","l","e","s",".">>
       >> >>
  >>

NETGEAR_SMART_CLI ==
  <<
    \* VLAN configuration (varies by model)
    << <<"V","L","A","N"," ","c","o","n","f","i","g","u","r","a","t","i","o","n"," ","(","v",
       "a","r","i","e","s"," ","b","y"," ","m","o","d","e","l",")">>,
       <<
         \* Many Netgear Smart/Managed switches are configured via web UI.
         <<"M","a","n","y"," ","N","e","t","g","e","a","r"," ","S","m","a","r","t","/","M","a",
         "n","a","g","e","d"," ","s","w","i","t","c","h","e","s"," ","a","r","e"," ","c","o",
         "n","f","i","g","u","r","e","d"," ","v","i","a"," ","w","e","b"," ","U","I",".">>,
         \* Some models have a CLI, but commands vary by family.
         <<"S","o","m","e"," ","m","o","d","e","l","s"," ","h","a","v","e"," ","a"," ","C","L",
         "I",","," ","b","u","t"," ","c","o","m","m","a","n","d","s"," ","v","a","r","y"," ",
         "b","y"," ","f","a","m","i","l","y",".">>,
         \* Best approach: use the UI/API and export config backups regularly.
         <<"B","e","s","t"," ","a","p","p","r","o","a","c","h",":"," ","u","s","e"," ","t","h",
         "e"," ","U","I","/","A","P","I"," ","a","n","d"," ","e","x","p","o","r","t"," ","c",
         "o","n","f","i","g"," ","b","a","c","k","u","p","s"," ","r","e","g","u","l","a","r",
         "l","y",".">>
       >> >>
  >>

UNMANAGED_CLI ==
  <<
    \* Configuration
    << <<"C","o","n","f","i","g","u","r","a","t","i","o","n">>,
       <<
         \* Unmanaged switch; no CLI configuration available.
         <<"U","n","m","a","n","a","g","e","d"," ","s","w","i","t","c","h",";"," ","n","o"," ",
         "C","L","I"," ","c","o","n","f","i","g","u","r","a","t","i","o","n"," ","a","v","a",
         "i","l","a","b","l","e",".">>
       >> >>
  >>

default_catalog ==
  <<
  \* Cisco Catalyst 9200L-24P
  [ vendor |-> <<"C","i","s","c","o">>,
    model |-> <<"C","a","t","a","l","y","s","t"," ","9","2","0","0","L","-","2","4","P">>,
    ports |-> 24, poe |-> TRUE,
    layer |-> <<"L","2">>,
    managed |-> TRUE, stackable |-> TRUE,
    uplink |-> <<"4","x","1","0","G">>,
    uplink_count |-> 4, poe_budget |-> PyInt(370),
    cli_sections |-> CISCO_CLI,
    troubleshooting |-> <<
        \* show interfaces status
        <<"s","h","o","w"," ","i","n","t","e","r","f","a","c","e","s"," ","s","t","a","t","u",
        "s">>,
        \* show power inline
        <<"s","h","o","w"," ","p","o","w","e","r"," ","i","n","l","i","n","e">>,
        \* show spanning-tree summary
        <<"s","h","o","w"," ","s","p","a","n","n","i","n","g","-","t","r","e","e"," ","s","u",
        "m","m","a","r","y">>,
        \* show cdp neighbors detail
        <<"s","h","o","w"," ","c","d","p"," ","n","e","i","g","h","b","o","r","s"," ","d","e",
        "t","a","i","l">>
      >>,
    \* Campus access (9200L). Good standard edge switch option.
    notes |-> <<"C","a","m","p","u","s"," ","a","c","c","e","s","s"," ","(","9","2","0","0","L",")",".",
      " ","G","o","o","d"," ","s","t","a","n","d","a","r","d"," ","e","d","g","e"," ","s","w",
      "i","t","c","h"," ","o","p","t","i","o","n",".">> ],
  \* Cisco Catalyst 9300-48P
  [ vendor |-> <<"C","i","s","c","o">>,
    model |-> <<"C","a","t","a","l","y","s","t"," ","9","3","0","0","-","4","8","P">>,
    ports |-> 48, poe |-> TRUE,
    layer |-> <<"L","3">>,
    managed |-> TRUE, stackable |-> TRUE,
    uplink |-> <<"4","x","2","5","G">>,
    uplink_count |-> 4, poe_budget |-> PyInt(715),
    cli_sections |-> CISCO_CLI,
    troubleshooting |-> <<
        \* show interfaces status
        <<"s","h","o","w"," ","i","n","t","e","r","f","a","c","e","s"," ","s","t","a","t","u",
        "s">>,
        \* show power inline
        <<"s","h","o","w"," ","p","o","w","e","r"," ","i","n","l","i","n","e">>,
        \* show etherchannel summary
        <<"s","h","o","w"," ","e","t","h","e","r","c","h","a","n","n","e","l"," ","s","u","m",
        "m","a","r","y">>,
        \* show spanning-tree interface status
        <<"s","h","o","w"," ","s","p","a","n","n","i","n","g","-","t","r","e","e"," ","i","n",
        "t","e","r","f","a","c","e"," ","s","t","a","t","u","s">>,
        \* show logging | last 50
        <<"s","h","o","w"," ","l","o","g","g","i","n","g"," ","|"," ","l","a","s","t"," ","5",
        "0">>
      >>,
    \* Enterprise access with L3 capabilities and stacking.
    notes |-> <<"E","n","t","e","r","p","r","i","s","e"," ","a","c","c","e","s","s"," ","w","i","t","h",
      " ","L","3"," ","c","a","p","a","b","i","l","i","t","i","e","s"," ","a","n","d"," ","s",
      "t","a","c","k","i","n","g",".">> ],
  \* Cisco Catalyst 9500-24Y4C
  [ vendor |-> <<"C","i","s","c","o">>,
    model |-> <<"C","a","t","a","l","y","s","t"," ","9","5","0","0","-","2","4","Y","4","C">>,
    ports |-> 24, poe |-> FALSE,
    layer |-> <<"L","3">>,
    managed |-> TRUE, stackable |-> FALSE,
    uplink |-> <<"4","0","/","1","0","0","G">>,
    uplink_count |-> 4, poe_budget |-> None,
    cli_sections |-> <<
        \* Routing (example)
        << <<"R","o","u","t","i","n","g"," ","(","e","x","a","m","p","l","e",")">>,
           <<
             \* configure terminal
             <<"c","o","n","f","i","g","u","r","e"," ","t","e","r","m","i","n","a","l">>,
             \* ip routing
             <<"i","p"," ","r","o","u","t","i","n","g">>,
             \* interface vlan 10
             <<"i","n","t","e","r","f","a","c","e"," ","v","l","a","n"," ","1","0">>,
             \* ip address 10.10.10.1 255.255.255.0
             <<"i","p"," ","a","d","d","r","e","s","s"," ","1","0",".","1","0",".","1","0",".",
             "1"," ","2","5","5",".","2","5","5",".","2","5","5",".","0">>,
             \* end
             <<"e","n","d">>,
             \* write memory
             <<"w","r","i","t","e"," ","m","e","m","o","r","y">>
           >> >>
      >>,
    troubleshooting |-> <<
        \* show ip interface brief
        <<"s","h","o","w"," ","i","p"," ","i","n","t","e","r","f","a","c","e"," ","b","r","i",
        "e","f">>,
        \* show ip route
        <<"s","h","o","w"," ","i","p"," ","r","o","u","t","e">>,
        \* show platform hardware capacity
        <<"s","h","o","w"," ","p","l","a","t","f","o","r","m"," ","h","a","r","d","w","a","r",
        "e"," ","c","a","p","a","c","i","t","y">>,
        \* show interfaces counters errors
        <<"s","h","o","w"," ","i","n","t","e","r","f","a","c","e","s"," ","c","o","u","n","t",
        "e","r","s"," ","e","r","r","o","r","s">>
      >>,
    \* Core/distribution L3 switch (no PoE).
    notes |-> <<"C","o","r","e","/","d","i","s","t","r","i","b","u","t","i","o","n"," ","L","3"," ","s",
      "w","i","t","c","h"," ","(","n","o"," ","P","o","E",")",".">> ],
  \* Juniper EX2300-24P
  [ vendor |-> <<"J","u","n","i","p","e","r">>,
    model |-> <<"E","X","2","3","0","0","-","2","4","P">>,
    ports |-> 24, poe |-> TRUE,
    layer |-> <<"L","2">>,
    managed |-> TRUE, stackable |-> TRUE,
    uplink |-> <<"4","x","1","0","G"," ","(","S","F","P","+",")">>,
    uplink_count |-> 4, poe_budget |-> PyInt(370),
    cli_sections |-> JUNIPER_CLI,
    troubleshooting |-> <<
        \* show interfaces terse
        <<"s","h","o","w"," ","i","n","t","e","r","f","a","c","e","s"," ","t","e","r","s","e">>,
        \* show poe interface all
        <<"s","h","o","w"," ","p","o","e"," ","i","n","t","e","r","f","a","c","e"," ","a","l",
        "l">>,
        \* show ethernet-switching table
        <<"s","h","o","w"," ","e","t","h","e","r","n","e","t","-","s","w","i","t","c","h","i",
        "n","g"," ","t","a","b","l","e">>,
        \* show chassis alarms
        <<"s","h","o","w"," ","c","h","a","s","s","i","s"," ","a","l","a","r","m","s">>
      >>,
    \* Access switch with Virtual Chassis (model dependent).
    notes |-> <<"A","c","c","e","s","s"," ","s","w","i","t","c","h"," ","w","i","t","h"," ","V","i","r",
      "t","u","a","l"," ","C","h","a","s","s","i","s"," ","(","m","o","d","e","l"," ","d","e",
      "p","e","n","d","e","n","t",")",".">> ],
  \* Juniper EX3400-48P
  [ vendor |-> <<"J","u","n","i","p","e","r">>,
    model |-> <<"E","X","3","4","0","0","-","4","8","P">>,
    ports |-> 48, poe |-> TRUE,
    layer |-> <<"L","3">>,
    managed |-> TRUE, stackable |-> TRUE,
    uplink |-> <<"4","x","1","0","G"," ","(","S","F","P","+",")">>,
    uplink_count |-> 4, poe_budget |-> PyInt(740),
    cli_sections |-> JUNIPER_CLI,
    troubleshooting |-> <<
        \* show interfaces terse
        <<"s","h","o","w"," ","i","n","t","e","r","f","a","c","e","s"," ","t","e","r","s","e">>,
        \* show spanning-tree interface
        <<"s","h","o","w"," ","s","p","a","n","n","i","n","g","-","t","r","e","e"," ","i","n",
        "t","e","r","f","a","c","e">>,
        \* show ethernet-switching table
        <<"s","h","o","w"," ","e","t","h","e","r","n","e","t","-","s","w","i","t","c","h","i",
        "n","g"," ","t","a","b","l","e">>,
        \* show virtual-chassis
        <<"s","h","o","w"," ","v","i","r","t","u","a","l","-","c","h","a","s","s","i","s">>
      >>,
    \* Campus access with stronger performance; VC capable.
    notes |-> <<"C","a","m","p","u","s"," ","a","c","c","e","s","s"," ","w","i","t","h"," ","s","t","r",
      "o","n","g","e","r"," ","p","e","r","f","o","r","m","a","n","c","e",";"," ","V","C"," ",
      "c","a","p","a","b","l","e",".">> ],
  \* Juniper EX4300-48P
  [ vendor |-> <<"J","u","n","i","p","e","r">>,
    model |-> <<"E","X","4","3","0","0","-","4","8","P">>,
    ports |-> 48, poe |-> TRUE,
    layer |-> <<"L","3">>,
    managed |-> TRUE, stackable |-> TRUE,
    uplink |-> <<"4","x","4","0","G">>,
    uplink_count |-> 4, poe_budget |-> PyInt(715),
    cli_sections |-> JUNIPER_CLI,
    troubleshooting |-> <<
        \* show interfaces terse
        <<"s","h","o","w"," ","i","n","t","e","r","f","a","c","e","s"," ","t","e","r","s","e">>,
        \* show poe interface all
        <<"s","h","o","w"," ","p","o","e"," ","i","n","t","e","r","f","a","c","e"," ","a","l",
        "l">>,
        \* show ethernet-switching table
        <<"s","h","o","w"," ","e","t","h","e","r","n","e","t","-","s","w","i","t","c","h","i",
        "n","g"," ","t","a","b","l","e">>,
        \* show chassis hardware
        <<"s","h","o","w"," ","c","h","a","s","s","i","s"," ","h","a","r","d","w","a","r","e">>,
        \* show virtual-chassis
        <<"s","h","o","w"," ","v","i","r","t","u","a","l","-","c","h","a","s","s","i","s">>
      >>,
    \* Virtual Chassis capable with PoE+.
    notes |-> <<"V","i","r","t","u","a","l"," ","C","h","a","s","s","i","s"," ","c","a","p","a","b","l",
      "e"," ","w","i","t","h"," ","P","o","E","+",".">> ],
  \* Aruba 2530-24G-PoE+
  [ vendor |-> <<"A","r","u","b","a">>,
    model |-> <<"2","5","3","0","-","2","4","G","-","P","o","E","+">>,
    ports |-> 24, poe |-> TRUE,
    layer |-> <<"L","2">>,
    managed |-> TRUE, stackable |-> FALSE,
    uplink |-> <<"4","x","S","F","P">>,
    uplink_count |-> 4, poe_budget |-> PyInt(195),
    cli_sections |-> ARUBA_AOSS_CLI,
    troubleshooting |-> <<
        \* show interfaces brief
        <<"s","h","o","w"," ","i","n","t","e","r","f","a","c","e","s"," ","b","r","i","e","f">>,
        \* show power-over-ethernet brief
        <<"s","h","o","w"," ","p","o","w","e","r","-","o","v","e","r","-","e","t","h","e","r",
        "n","e","t"," ","b","r","i","e","f">>,
        \* show vlan
        <<"s","h","o","w"," ","v","l","a","n">>,
        \* show trunks
        <<"s","h","o","w"," ","t","r","u","n","k","s">>,
        \* show spanning-tree
        <<"s","h","o","w"," ","s","p","a","n","n","i","n","g","-","t","r","e","e">>
      >>,
    \* AOS-S access switch, simple and reliable edge.
    notes |-> <<"A","O","S","-","S"," ","a","c","c","e","s","s"," ","s","w","i","t","c","h",","," ","s",
      "i","m","p","l","e"," ","a","n","d"," ","r","e","l","i","a","b","l","e"," ","e","d","g",
      "e",".">> ],
  \* Aruba 2930F-48G-PoE+
  [ vendor |-> <<"A","r","u","b","a">>,
    model |-> <<"2","9","3","0","F","-","4","8","G","-","P","o","E","+">>,
    ports |-> 48, poe |-> TRUE,
    layer |-> <<"L","3">>,
    managed |-> TRUE, stackable |-> TRUE,
    uplink |-> <<"4","x","S","F","P","+"," ","(","1","0","G",")">>,
    uplink_count |-> 4, poe_budget |-> PyInt(740),
    cli_sections |-> ARUBA_AOSS_CLI,
    troubleshooting |-> <<
        \* show interfaces brief
        <<"s","h","o","w"," ","i","n","t","e","r","f","a","c","e","s"," ","b","r","i","e","f">>,
        \* show power-over-ethernet brief
        <<"s","h","o","w"," ","p","o","w","e","r","-","o","v","e","r","-","e","t","h","e","r",
        "n","e","t"," ","b","r","i","e","f">>,
        \* show lacp
        <<"s","h","o","w"," ","l","a","c","p">>,
        \* show spanning-tree
        <<"s","h","o","w"," ","s","p","a","n","n","i","n","g","-","t","r","e","e">>,
        \* show logging -r
        <<"s","h","o","w"," ","l","o","g","g","i","n","g"," ","-","r">>
      >>,
    \* AOS-S (2930F) often used for campus access; stacking via VSF.
    notes |-> <<"A","O","S","-","S"," ","(","2","9","3","0","F",")"," ","o","f","t","e","n"," ","u","s",
      "e","d"," ","f","o","r"," ","c","a","m","p","u","s"," ","a","c","c","e","s","s",";"," ",
      "s","t","a","c","k","i","n","g"," ","v","i","a"," ","V","S","F",".">> ],
  \* Aruba CX 6100 48G
  [ vendor |-> <<"A","r","u","b","a">>,
    model |-> <<"C","X"," ","6","1","0","0"," ","4","8","G">>,
    ports |-> 48, poe |-> FALSE,
    layer |-> <<"L","2">>,
    managed |-> TRUE, stackable |-> TRUE,
    uplink |-> <<"4","x","S","F","P","+"," ","(","1","0","G",")">>,
    uplink_count |-> 4, poe_budget |-> None,
    cli_sections |-> ARUBA_CX_CLI,
    troubleshooting |-> <<
        \* show interface brief
        <<"s","h","o","w"," ","i","n","t","e","r","f","a","c","e"," ","b","r","i","e","f">>,
        \* show vlan
        <<"s","h","o","w"," ","v","l","a","n">>,
        \* show lacp interfaces
        <<"s","h","o","w"," ","l","a","c","p"," ","i","n","t","e","r","f","a","c","e","s">>,
        \* show logging -r
        <<"s","h","o","w"," ","l","o","g","g","i","n","g"," ","-","r">>
      >>,
    \* Entry AOS-CX access; modern OS, good for standard edge.
    notes |-> <<"E","n","t","r","y"," ","A","O","S","-","C","X"," ","a","c","c","e","s","s",";"," ","m",
      "o","d","e","r","n"," ","O","S",","," ","g","o","o","d"," ","f","o","r"," ","s","t","a",
      "n","d","a","r","d"," ","e","d","g","e",".">> ],
  \* Aruba CX 6200F 48G PoE+
  [ vendor |-> <<"A","r","u","b","a">>,
    model |-> <<"C","X"," ","6","2","0","0","F"," ","4","8","G"," ","P","o","E","+">>,
    ports |-> 48, poe |-> TRUE,
    layer |-> <<"L","3">>,
    managed |-> TRUE, stackable |-> TRUE,
    uplink |-> <<"4","x","S","F","P","+"," ","(","1","0","G",")">>,
    uplink_count |-> 4, poe_budget |-> PyInt(740),
    cli_sections |-> ARUBA_CX_CLI,
    troubleshooting |-> <<
        \* show interface brief
        <<"s","h","o","w"," ","i","n","t","e","r","f","a","c","e"," ","b","r","i","e","f">>,
        \* show power-over-ethernet brief
        <<"s","h","o","w"," ","p","o","w","e","r","-","o","v","e","r","-","e","t","h","e","r",
        "n","e","t"," ","b","r","i","e","f">>,
        \* show vsf
        <<"s","h","o","w"," ","v","s","f">>,
        \* show vlan
        <<"s","h","o","w"," ","v","l","a","n">>,
        \* show lacp interfaces
        <<"s","h","o","w"," ","l","a","c","p"," ","i","n","t","e","r","f","a","c","e","s">>
      >>,
    \* AOS-CX access/distribution; common campus standard with VSF.
    notes |-> <<"A","O","S","-","C","X"," ","a","c","c","e","s","s","/","d","i","s","t","r","i","b","u",
      "t","i","o","n",";"," ","c","o","m","m","o","n"," ","c","a","m","p","u","s"," ","s","t",
      "a","n","d","a","r","d"," ","w","i","t","h"," ","V","S","F",".">> ],
  \* Aruba CX 6300M 48G PoE+
  [ vendor |-> <<"A","r","u","b","a">>,
    model |-> <<"C","X"," ","6","3","0","0","M"," ","4","8","G"," ","P","o","E","+">>,
    ports |-> 48, poe |-> TRUE,
    layer |-> <<"L","3">>,
    managed |-> TRUE, stackable |-> TRUE,
    uplink |-> <<"4","x","S","F","P","+","/","4","x","S","F","P","5","6">>,
    uplink_count |-> 4, poe_budget |-> PyInt(1440),
    cli_sections |-> ARUBA_CX_CLI,
    troubleshooting |-> <<
        \* show interface brief
        <<"s","h","o","w"," ","i","n","t","e","r","f","a","c","e"," ","b","r","i","e","f">>,
        \* show power-over-ethernet brief
        <<"s","h","o","w"," ","p","o","w","e","r","-","o","v","e","r","-","e","t","h","e","r",
        "n","e","t"," ","b","r","i","e","f">>,
        \* show vsx status
        <<"s","h","o","w"," ","v","s","x"," ","s","t","a","t","u","s">>,
        \* show lacp interfaces
        <<"s","h","o","w"," ","l","a","c","p"," ","i","n","t","e","r","f","a","c","e","s">>,
        \* show logging -r
        <<"s","h","o","w"," ","l","o","g","g","i","n","g"," ","-","r">>
      >>,
    \* Higher-performance CX stack/VSX capable distribution layer.
    notes |-> <<"H","i","g","h","e","r","-","p","e","r","f","o","r","m","a","n","c","e"," ","C","X"," ",
      "s","t","a","c","k","/","V","S","X"," ","c","a","p","a","b","l","e"," ","d","i","s","t",
      "r","i","b","u","t","i","o","n"," ","l","a","y","e","r",".">> ],
  \* Ubiquiti UniFi USW-24
  [ vendor |-> <<"U","b","i","q","u","i","t","i">>,
    model |-> <<"U","n","i","F","i"," ","U","S","W","-","2","4">>,
    ports |-> 24, poe |-> FALSE,
    layer |-> <<"L","2">>,
    managed |-> TRUE, stackable |-> FALSE,
    uplink |-> <<"2","x","S","F","P">>,
    uplink_count |-> 2, poe_budget |-> None,
    cli_sections |-> UNIFI_CLI,
    troubleshooting |-> <<
        \* show interfaces
        <<"s","h","o","w"," ","i","n","t","e","r","f","a","c","e","s">>,
        \* mca-cli-op info
        <<"m","c","a","-","c","l","i","-","o","p"," ","i","n","f","o">>,
        \* swctrl poe show
        <<"s","w","c","t","r","l"," ","p","o","e"," ","s","h","o","w">>
      >>,
    \* Managed via controller; CLI limited to diagnostics.
    notes |-> <<"M","a","n","a","g","e","d"," ","v","i","a"," ","c","o","n","t","r","o","l","l","e","r",
      ";"," ","C","L","I"," ","l","i","m","i","t","e","d"," ","t","o"," ","d","i","a","g","n",
      "o","s","t","i","c","s",".">> ],
  \* Ubiquiti UniFi USW-Pro-48-PoE
  [ vendor |-> <<"U","b","i","q","u","i","t","i">>,
    model |-> <<"U","n","i","F","i"," ","U","S","W","-","P","r","o","-","4","8","-","P","o","E">>,
    ports |-> 48, poe |-> TRUE,
    layer |-> <<"L","2">>,
    managed |-> TRUE, stackable |-> FALSE,
    uplink |-> <<"4","x","S","F","P","+">>,
    uplink_count |-> 4, poe_budget |-> PyInt(600),
    cli_sections |-> UNIFI_CLI,
    troubleshooting |-> <<
        \* show interfaces
        <<"s","h","o","w"," ","i","n","t","e","r","f","a","c","e","s">>,
        \* mca-cli-op info
        <<"m","c","a","-","c","l","i","-","o","p"," ","i","n","f","o">>,
        \* swctrl poe show
        <<"s","w","c","t","r","l"," ","p","o","e"," ","s","h","o","w">>,
        \* swctrl port show <port>
        <<"s","w","c","t","r","l"," ","p","o","r","t"," ","s","h","o","w"," ","<","p","o","r",
        "t",">">>
      >>,
    \* Controller-managed PoE access; diagnostics via SSH limited.
    notes |-> <<"C","o","n","t","r","o","l","l","e","r","-","m","a","n","a","g","e","d"," ","P","o","E",
      " ","a","c","c","e","s","s",";"," ","d","i","a","g","n","o","s","t","i","c","s"," ","v",
      "i","a"," ","S","S","H"," ","l","i","m","i","t","e","d",".">> ],
  \* Netgear GS108
  [ vendor |-> <<"N","e","t","g","e","a","r">>,
    model |-> <<"G","S","1","0","8">>,
    ports |-> 8, poe |-> FALSE,
    layer |-> <<"L","2">>,
    managed |-> FALSE, stackable |-> FALSE,
    uplink |-> <<"N","o","n","e">>,
    uplink_count |-> 0, poe_budget |-> None,
    cli_sections |-> UNMANAGED_CLI,
    troubleshooting |-> <<
        \* Use link LEDs and cable testing; no CLI available.
        <<"U","s","e"," ","l","i","n","k"," ","L","E","D","s"," ","a","n","d"," ","c","a","b",
        "l","e"," ","t","e","s","t","i","n","g",";"," ","n","o"," ","C","L","I"," ","a","v","a",
        "i","l","a","b","l","e",".">>
      >>,
    \* Unmanaged desktop switch.
    notes |-> <<"U","n","m","a","n","a","g","e","d"," ","d","e","s","k","t","o","p"," ","s","w","i","t",
      "c","h",".">> ],
  \* Netgear M4300-52G-PoE+
  [ vendor |-> <<"N","e","t","g","e","a","r">>,
    model |-> <<"M","4","3","0","0","-","5","2","G","-","P","o","E","+">>,
    ports |-> 48, poe |-> TRUE,
    layer |-> <<"L","3">>,
    managed |-> TRUE, stackable |-> TRUE,
    uplink |-> <<"2","x","4","0","G">>,
    uplink_count |-> 2, poe_budget |-> PyInt(740),
    cli_sections |-> NETGEAR_SMART_CLI,
    troubleshooting |-> <<
        \* show interface status
        <<"s","h","o","w"," ","i","n","t","e","r","f","a","c","e"," ","s","t","a","t","u","s">>,
        \* show poe status
        <<"s","h","o","w"," ","p","o","e"," ","s","t","a","t","u","s">>,
        \* show spanning-tree
        <<"s","h","o","w"," ","s","p","a","n","n","i","n","g","-","t","r","e","e">>
      >>,
    \* Stackable campus PoE switch (commands vary by firmware).
    notes |-> <<"S","t","a","c","k","a","b","l","e"," ","c","a","m","p","u","s"," ","P","o","E"," ","s",
      "w","i","t","c","h"," ","(","c","o","m","m","a","n","d","s"," ","v","a","r","y"," ","b",
      "y"," ","f","i","r","m","w","a","r","e",")",".">> ],
  \* HPE 2920-24G-PoE+
  [ vendor |-> <<"H","P","E">>,
    model |-> <<"2","9","2","0","-","2","4","G","-","P","o","E","+">>,
    ports |-> 24, poe |-> TRUE,
    layer |-> <<"L","3">>,
    managed |-> TRUE, stackable |-> TRUE,
    uplink |-> <<"2","x","S","F","P","+">>,
    uplink_count |-> 2, poe_budget |-> PyInt(370),
    cli_sections |-> ARUBA_AOSS_CLI,
    troubleshooting |-> <<
        \* show interfaces brief
        <<"s","h","o","w"," ","i","n","t","e","r","f","a","c","e","s"," ","b","r","i","e","f">>,
        \* show power-over-ethernet brief
        <<"s","h","o","w"," ","p","o","w","e","r","-","o","v","e","r","-","e","t","h","e","r",
        "n","e","t"," ","b","r","i","e","f">>,
        \* show spanning-tree
        <<"s","h","o","w"," ","s","p","a","n","n","i","n","g","-","t","r","e","e">>,
        \* show logging -r
        <<"s","h","o","w"," ","l","o","g","g","i","n","g"," ","-","r">>
      >>,
    \* ProCurve/ArubaOS-Switch family with stacking support.
    notes |-> <<"P","r","o","C","u","r","v","e","/","A","r","u","b","a","O","S","-","S","w","i","t","c",
      "h"," ","f","a","m","i","l","y"," ","w","i","t","h"," ","s","t","a","c","k","i","n","g",
      " ","s","u","p","p","o","r","t",".">> ]
  >>

\* ------------------------------------------------------------------------
\* Switch
\* ------------------------------------------------------------------------

\* dataclass Switch(...): the record built from the thirteen fields.
Switch(vendor, model, ports, poe, layer, managed, stackable, uplink, uplink_count, poe_budget, cli_sections, troubleshooting, notes) ==
  [ vendor |-> vendor, model |-> model, ports |-> ports, poe |-> poe,
    layer |-> layer, managed |-> managed, stackable |-> stackable,
    uplink |-> uplink, uplink_count |-> uplink_count,
    poe_budget |-> poe_budget, cli_sections |-> cli_sections,
    troubleshooting |-> troubleshooting, notes |-> notes ]

\* dict.values() of an insertion-ordered dict held as <<key, value>> pairs
values(d) == [i \in 1..Len(d) |-> d[i][2]]

\* The haystack with the section titles joined in ahead of the commands.
haystack_with_titles(self) ==
  join(<<" ">>,
       << self.vendor, self.model, self.layer, self.uplink, self.notes,
          join(<<" ">>, self.troubleshooting),
          join(<<" ">>, [i \in 1..Len(self.cli_sections) |->
                         join(<<" ">>, <<self.cli_sections[i][1]>> \o self.cli_sections[i][2])]) >>)

\* The text Switch.matches_keyword searches, before it is lowercased.
haystack(self) ==
  join(<<" ">>,
       << self.vendor, self.model, self.layer, self.uplink, self.notes,
          join(<<" ">>, self.troubleshooting),
          join(<<" ">>, [i \in 1..Len(self.cli_sections) |->
                         join(<<" ">>, values(self.cli_sections)[i])]) >>)

\* Switch.matches_keyword(self, keyword)
matches_keyword(self, keyword) ==
  IF ~bool(keyword) THEN TRUE
  ELSE In(lower(keyword.v), lower(haystack(self)))

\* ------------------------------------------------------------------------
\* load_catalog
\* ------------------------------------------------------------------------

Whitespace == {" "}
DigitChars == {"0","1","2","3","4","5","6","7","8","9"}

\* str.strip()
RECURSIVE strip(_)
strip(s) ==
  IF s = <<>> THEN s
  ELSE IF Head(s) \in Whitespace THEN strip(Tail(s))
  ELSE IF s[Len(s)] \in Whitespace THEN strip(SubSeq(s, 1, Len(s) - 1))
  ELSE s

\* value of a non-empty string of decimal digits
RECURSIVE digits_value(_)
digits_value(s) ==
  IF Len(s) = 1 THEN CHOOSE d \in 0..9 : Digits[d + 1] = s[1]
  ELSE 10 * digits_value(SubSeq(s, 1, Len(s) - 1))
       + (CHOOSE d \in 0..9 : Digits[d + 1] = s[Len(s)])

Ok(v) == [ok |-> TRUE, v |-> v]
Raise(exc) == [ok |-> FALSE, exc |-> exc]

\* int(x): the value, or the exception int() raises.
int(x) ==
  CASE x.t = "int" -> Ok(x.v)
    [] x.t = "bool" -> Ok(IF x.v THEN 1 ELSE 0)
    [] x.t = "float" -> Ok(IF x.v >= 0 THEN x.v \div 10 ELSE 0 - ((0 - x.v) \div 10))
    [] x.t = "str" ->
         LET s == strip(x.v)
             neg == s # <<>> /\ Head(s) = "-"
             body == IF s # <<>> /\ Head(s) \in {"-", "+"} THEN Tail(s) ELSE s
         IN  IF body # <<>> /\ \A i \in 1..Len(body) : body[i] \in DigitChars
             THEN Ok(IF neg THEN 0 - digits_value(body) ELSE digits_value(body))
             ELSE Raise("ValueError")
    [] OTHER -> Raise("TypeError")

\* item.get(key, default)
get(item, key, default) == IF key \in DOMAIN item THEN item[key] ELSE default

RequiredFields == <<"vendor", "model", "ports", "poe", "layer", "managed", "stackable">>

\* Switch(...) of one item of the document: the record, or the exception the
\* first failing argument expression raises (arguments are evaluated in the
\* order they are written).
load_item(item) ==
  IF "vendor" \notin DOMAIN item THEN Raise("KeyError")
  ELSE IF "model" \notin DOMAIN item THEN Raise("KeyError")
  ELSE IF "ports" \notin DOMAIN item THEN Raise("KeyError")
  ELSE IF ~int(item["ports"]).ok THEN Raise(int(item["ports"]).exc)
  ELSE IF "poe" \notin DOMAIN item THEN Raise("KeyError")
  ELSE IF "layer" \notin DOMAIN item THEN Raise("KeyError")
  ELSE IF "managed" \notin DOMAIN item THEN Raise("KeyError")
  ELSE IF "stackable" \notin DOMAIN item THEN Raise("KeyError")
  ELSE IF ~int(get(item, "uplink_count", PyInt(0))).ok
       THEN Raise(int(get(item, "uplink_count", PyInt(0))).exc)
  ELSE Ok(Switch(item["vendor"].v,
                 item["model"].v,
                 int(item["ports"]).v,
                 bool(item["poe"]),
                 item["layer"].v,
                 bool(item["managed"]),
                 bool(item["stackable"]),
                 get(item, "uplink", PyStr(<<"N","/","A">>)).v,
                 int(get(item, "uplink_count", PyInt(0))).v,
                 get(item, "poe_budget", None),
                 get(item, "cli_sections", PyDict(<<>>)).v,
                 get(item, "troubleshooting", PyList(<<>>)).v,
                 get(item, "notes", PyStr(<<>>)).v))

\* The loop of load_catalog over data[i..]: the catalog built, or the
\* exception that leaves the loop.
RECURSIVE load_loop(_, _, _)
load_loop(data, i, catalog) ==
  IF i > Len(data) THEN Ok(catalog)
  ELSE IF ~load_item(data[i]).ok THEN load_item(data[i])
  ELSE load_loop(data, i + 1, Append(catalog, load_item(data[i]).v))

\* load_catalog(path), data being the parsed content of the file at path.
load_catalog(path, data) ==
  IF ~bool(path) THEN Ok(default_catalog)
  ELSE load_loop(data, 1, <<>>)

\* ------------------------------------------------------------------------
\* filter_catalog
\* ------------------------------------------------------------------------

\* bool_filter taking an absent selector for a required yes.
bool_filter_unset_requires(value, selector) ==
  IF selector = None THEN value
  ELSE IF lower(selector.v) = <<"y","e","s">> THEN value
  ELSE IF lower(selector.v) = <<"n","o">> THEN ~value
  ELSE TRUE

\* bool_filter without the negation of the "no" branch.
bool_filter_no_as_yes(value, selector) ==
  IF selector = None THEN TRUE
  ELSE IF lower(selector.v) = <<"y","e","s">> THEN value
  ELSE IF lower(selector.v) = <<"n","o">> THEN value
  ELSE TRUE

\* filter_catalog.bool_filter(value, selector)
bool_filter(value, selector) ==
  IF selector = None THEN TRUE
  ELSE IF lower(selector.v) = <<"y","e","s">> THEN value
  ELSE IF lower(selector.v) = <<"n","o">> THEN ~value
  ELSE TRUE

\* The loop body that takes min_ports for a bound the port count must exceed.
keeps_above_min(item, a) ==
  IF bool(a.vendor) /\ lower(item.vendor) # lower(a.vendor.v) THEN FALSE
  ELSE IF bool(a.model) /\ ~In(lower(a.model.v), lower(item.model)) THEN FALSE
  ELSE IF ~matches_keyword(item, a.keyword) THEN FALSE
  ELSE IF bool(a.min_ports) /\ item.ports <= a.min_ports.v THEN FALSE
  ELSE IF bool(a.max_ports) /\ item.ports > a.max_ports.v THEN FALSE
  ELSE IF bool(a.layer) /\ lower(item.layer) # lower(a.layer.v) THEN FALSE
  ELSE IF ~bool_filter(item.poe, a.poe) THEN FALSE
  ELSE IF ~bool_filter(item.managed, a.managed) THEN FALSE
  ELSE IF ~bool_filter(item.stackable, a.stackable) THEN FALSE
  ELSE TRUE

\* One pass of the loop body of filter_catalog: TRUE when the body reaches
\* results.append(item), FALSE when one of its tests takes "continue".
keeps(item, a) ==
  IF bool(a.vendor) /\ lower(item.vendor) # lower(a.vendor.v) THEN FALSE
  ELSE IF bool(a.model) /\ ~In(lower(a.model.v), lower(item.model)) THEN FALSE
  ELSE IF ~matches_keyword(item, a.keyword) THEN FALSE
  ELSE IF bool(a.min_ports) /\ item.ports < a.min_ports.v THEN FALSE
  ELSE IF bool(a.max_ports) /\ item.ports > a.max_ports.v THEN FALSE
  ELSE IF bool(a.layer) /\ lower(item.layer) # lower(a.layer.v) THEN FALSE
  ELSE IF ~bool_filter(item.poe, a.poe) THEN FALSE
  ELSE IF ~bool_filter(item.managed, a.managed) THEN FALSE
  ELSE IF ~bool_filter(item.stackable, a.stackable) THEN FALSE
  ELSE TRUE

\* The kept record put at the front of the results.
append_front(results, item) == <<item>> \o results

\* results.append(item)
append(results, item) == Append(results, item)

\* The loop of filter_catalog from the i-th record on, results so far.
RECURSIVE filter_loop(_, _, _, _)
filter_loop(cat, a, i, results) ==
  IF i > Len(cat) THEN results
  ELSE filter_loop(cat, a, i + 1,
                   IF keeps(cat[i], a) THEN append(results, cat[i]) ELSE results)

\* filter_catalog(catalog, args)
filter_catalog(cat, a) == filter_loop(cat, a, 1, <<>>)

\* ------------------------------------------------------------------------
\* answer_question
\* ------------------------------------------------------------------------

\* score_switch giving the PoE bonus to switches without PoE as well.
score_switch_poe_any(sw, q) ==
  LET q_low == lower(q)
      s1 == IF In(lower(sw.vendor), q_low) THEN 3 ELSE 0
      s2 == s1 + (IF In(lower(sw.model), q_low) THEN 3 ELSE 0)
      s3 == s2 + (IF In(<<"p","o","e">>, q_low) THEN 2 ELSE 0)
      s4 == s3 + (IF In(<<"s","t","a","c","k">>, q_low) /\ sw.stackable THEN 2 ELSE 0)
      s5 == IF In(<<"l","a","y","e","r"," ","3">>, q_low) \/ In(<<"l","3">>, q_low)
            THEN s4 + (IF lower(sw.layer) = <<"l","3">> THEN 1 ELSE 0)
            ELSE s4
      s6 == IF In(<<"t","r","o","u","b","l","e","s","h","o","o","t">>, q_low) \/ In(<<"d","i","a","g","n","o","s","e">>, q_low)
            THEN s5 + (IF sw.troubleshooting # <<>> THEN 1 ELSE 0)
            ELSE s5
      s7 == IF In(<<"u","p","l","i","n","k">>, q_low) THEN s6 + 1 ELSE s6
  IN  s7

\* answer_question.score_switch(sw, q): the statements in order, each adding
\* to the score so far.
score_switch(sw, q) ==
  LET q_low == lower(q)
      s1 == IF In(lower(sw.vendor), q_low) THEN 3 ELSE 0
      s2 == s1 + (IF In(lower(sw.model), q_low) THEN 3 ELSE 0)
      s3 == s2 + (IF In(<<"p","o","e">>, q_low) /\ sw.poe THEN 2 ELSE 0)
      s4 == s3 + (IF In(<<"s","t","a","c","k">>, q_low) /\ sw.stackable THEN 2 ELSE 0)
      s5 == IF In(<<"l","a","y","e","r"," ","3">>, q_low) \/ In(<<"l","3">>, q_low)
            THEN s4 + (IF lower(sw.layer) = <<"l","3">> THEN 1 ELSE 0)
            ELSE s4
      s6 == IF In(<<"t","r","o","u","b","l","e","s","h","o","o","t">>, q_low) \/ In(<<"d","i","a","g","n","o","s","e">>, q_low)
            THEN s5 + (IF sw.troubleshooting # <<>> THEN 1 ELSE 0)
            ELSE s5
      s7 == IF In(<<"u","p","l","i","n","k">>, q_low) THEN s6 + 1 ELSE s6
  IN  s7

\* The loop that fills ranked with the (score, switch) pairs in catalog order.
score_all(question, cat) == [i \in 1..Len(cat) |-> <<score_switch(cat[i], question), cat[i]>>]

\* A sort step that puts x ahead of the pairs with its own score.
insert_desc_ties_first(sorted, x) ==
  LET ahead == SelectSeq(sorted, LAMBDA y : y[1] > x[1])
      behind == SelectSeq(sorted, LAMBDA y : y[1] <= x[1])
  IN  ahead \o <<x>> \o behind

\* One step of the stable descending sort: x goes behind every pair whose
\* score is at least its own and ahead of every pair with a smaller score.
insert_desc(sorted, x) ==
  LET ahead == SelectSeq(sorted, LAMBDA y : y[1] >= x[1])
      behind == SelectSeq(sorted, LAMBDA y : y[1] < x[1])
  IN  ahead \o <<x>> \o behind

\* ranked.sort(key=lambda x: x[0], reverse=True) on the first n pairs
RECURSIVE sort_prefix(_, _)
sort_prefix(pairs, n) ==
  IF n = 0 THEN <<>> ELSE insert_desc(sort_prefix(pairs, n - 1), pairs[n])

\* ranked.sort(key=lambda x: x[0], reverse=True)
sort_by_score_reverse(pairs) == sort_prefix(pairs, Len(pairs))

\* "; ".join(cmds[:4]), then " ..." when there are more than four
preview(cmds) ==
  join(<<";"," ">>, SubSeq(cmds, 1, IF Len(cmds) < 4 THEN Len(cmds) ELSE 4))
    \o (IF Len(cmds) > 4 THEN <<" ",".",".",".">> ELSE <<>>)

NoMatchMessage ==
  <<"I"," ","d","i","d","n","'","t"," ","f","i","n","d"," ","a"," ","s","p","e","c","i","f","i","c"," ","m","a","t","c","h","."," ","T","r","y"," ","m","e","n","t","i","o","n","i","n","g"," ","a"," ","v","e","n","d","o","r"," ","o","r"," ","f","e","a","t","u","r","e"," ">>
    \o <<"(","e",".","g",".",","," ","'","C","i","s","c","o"," ","P","o","E"," ","4","8","-","p","o","r","t"," ","s","t","a","c","k","a","b","l","e"," ","L","3"," ","w","i","t","h"," ","t","r","o","u","b","l","e","s","h","o","o","t","i","n","g"," ","c","o","m","m","a","n","d","s","'",")",".">>

\* The lines answer_question composes for the switch best.
suggestion_lines(best) ==
  << <<"S","u","g","g","e","s","t","e","d"," ","m","a","t","c","h",":"," ">> \o best.vendor \o <<" ">> \o best.model \o <<" ","(">> \o best.layer
       \o <<","," ">> \o str(best.ports) \o <<" ","p","o","r","t","s",","," ">>
       \o (IF best.poe THEN <<"P","o","E">> ELSE <<"n","o","n","-","P","o","E">>) \o <<","," ">>
       \o (IF best.stackable THEN <<"s","t","a","c","k","a","b","l","e">> ELSE <<"n","o","n","-","s","t","a","c","k","a","b","l","e">>) \o <<")",".">>,
     <<"U","p","l","i","n","k","s",":"," ">> \o str(best.uplink_count) \o <<" ","@"," ">> \o best.uplink \o <<"."," ","P","o","E"," ","b","u","d","g","e","t",":"," ">>
       \o (IF best.poe_budget # None THEN str(best.poe_budget.v) ELSE <<"N","/","A">>) \o <<".">>,
     <<"N","o","t","e","s",":"," ">> \o best.notes >>
  \o (IF best.cli_sections # <<>>
      THEN << <<"K","e","y"," ","c","o","n","f","i","g","u","r","a","t","i","o","n"," ","s","e","c","t","i","o","n","s",":">> >>
           \o [i \in 1..Len(best.cli_sections) |->
                 <<" "," ","-"," ">> \o best.cli_sections[i][1] \o <<":"," ">>
                   \o preview(best.cli_sections[i][2])]
      ELSE <<>>)
  \o (IF best.troubleshooting # <<>>
      THEN << <<"T","r","o","u","b","l","e","s","h","o","o","t","i","n","g"," ","t","i","p","s",":"," ">> \o preview(best.troubleshooting) >>
      ELSE <<>>)
  \o << <<"Y","o","u"," ","c","a","n"," ","s","e","e"," ","f","u","l","l"," ","d","e","t","a","i","l","s"," ","w","i","t","h",":">>,
        <<" "," ","p","y","t","h","o","n"," ","a","p","p",".","p","y"," ","-","-","v","e","n","d","o","r"," ">> \o <<"\"">> \o best.vendor \o <<"\"">> \o <<" ","-","-","m","o","d","e","l"," ">>
          \o <<"\"">> \o best.model \o <<"\"">> \o <<" ","-","-","i","n","c","l","u","d","e","-","c","l","i"," ","-","-","g","r","o","u","p","-","b","y","-","v","e","n","d","o","r">> >>

\* answer_question(question, catalog): the ranked list and either the text
\* returned or the exception raised.
answer_question(question, cat) ==
  LET rk == sort_by_score_reverse(score_all(question, cat))
  IN  IF rk = <<>>
      THEN [ranked |-> rk, ok |-> FALSE, exc |-> "IndexError", v |-> <<>>]
      ELSE IF rk[1][1] = 0
      THEN [ranked |-> rk, ok |-> TRUE, exc |-> "", v |-> NoMatchMessage]
      ELSE [ranked |-> rk, ok |-> TRUE, exc |-> "",
            v |-> join(<<"\n">>, suggestion_lines(rk[1][2]))]

\* ------------------------------------------------------------------------
\* format_table
\* ------------------------------------------------------------------------
\* A rendered text is held as the sequence of its lines: the text is the
\* lines joined with "\n", and no catalog string holds a line break.

\* The characters in code-point order, which is how Python compares strings.
CodePoints ==
  <<" ","!">> \o <<"\"", "#", "$">> \o <<"%","&","'","(",")","*","+",",","-",".","/","0","1","2","3","4","5","6","7","8","9",":",";","<","=",">","?","@","A","B","C","D","E","F","G","H","I","J","K","L","M","N","O","P","Q","R","S","T","U","V","W","X","Y","Z","[">> \o <<"\\">>
    \o <<"]","^","_","a","b","c","d","e","f","g","h","i","j","k","l","m","n","o","p","q","r","s","t","u","v","w","x","y","z","{","|","}","~">>

ord == [c \in {CodePoints[i] : i \in DOMAIN CodePoints} |->
          CHOOSE i \in DOMAIN CodePoints : CodePoints[i] = c]

\* a < b on two str
str_lt(a, b) ==
  \E i \in 1..(Len(a) + 1) :
     /\ i <= Len(b)
     /\ SubSeq(a, 1, i - 1) = SubSeq(b, 1, i - 1)
     /\ i = Len(a) + 1 \/ ord[a[i]] < ord[b[i]]

\* The sort that puts the largest string first.
RECURSIVE sorted_descending(_)
sorted_descending(S) ==
  IF S = {} THEN <<>>
  ELSE LET most == CHOOSE x \in S : \A y \in S \ {x} : str_lt(y, x)
       IN  <<most>> \o sorted_descending(S \ {most})

\* sorted(S) of a set of str
RECURSIVE sorted(_)
sorted(S) ==
  IF S = {} THEN <<>>
  ELSE LET least == CHOOSE x \in S : \A y \in S \ {x} : str_lt(x, y)
       IN  <<least>> \o sorted(S \ {least})

\* s.ljust(width)
ljust(s, width) ==
  IF Len(s) >= width THEN s
  ELSE s \o [i \in 1..(width - Len(s)) |-> " "]

\* s.rstrip()
rstrip(s) ==
  LET keep == {i \in 1..Len(s) : s[i] \notin Whitespace}
  IN  IF keep = {} THEN <<>>
      ELSE SubSeq(s, 1, CHOOSE i \in keep : \A j \in keep : j <= i)

\* "\n".join(lines).rstrip(), as lines: the trailing lines that hold nothing
\* but whitespace go, and the last line left loses its trailing whitespace.
join_rstrip(lines) ==
  LET inked == {i \in 1..Len(lines) : rstrip(lines[i]) # <<>>}
  IN  IF inked = {} THEN << <<>> >>
      ELSE LET last == CHOOSE i \in inked : \A j \in inked : j <= i
           IN  [i \in 1..last |-> IF i = last THEN rstrip(lines[i]) ELSE lines[i]]

\* The concatenation of a sequence of lists.
RECURSIVE extend_all(_)
extend_all(lists) ==
  IF lists = <<>> THEN <<>> ELSE lists[1] \o extend_all(Tail(lists))

headers ==
  << <<"V","e","n","d","o","r">>, <<"M","o","d","e","l">>, <<"P","o","r","t","s">>, <<"P","o","E">>, <<"L","a","y","e","r">>, <<"M","a","n","a","g","e","d">>,
     <<"S","t","a","c","k","a","b","l","e">>, <<"U","p","l","i","n","k","s">>, <<"P","o","E"," ","B","u","d","g","e","t"," ","(","W",")">>, <<"N","o","t","e","s">> >>

\* The ten cells of a record's row.
row_of(sw) ==
  << sw.vendor,
     sw.model,
     str(sw.ports),
     IF sw.poe THEN <<"Y","e","s">> ELSE <<"N","o">>,
     sw.layer,
     IF sw.managed THEN <<"Y","e","s">> ELSE <<"N","o">>,
     IF sw.stackable THEN <<"Y","e","s">> ELSE <<"N","o">>,
     str(sw.uplink_count) \o <<" ","@"," ">> \o sw.uplink,
     IF sw.poe_budget # None THEN str(sw.poe_budget.v) ELSE <<"-">>,
     sw.notes >>

\* format_table.render_rows(rows)
render_rows(rows) ==
  LET all == rows \o <<headers>>
      col_widths == [i \in 1..Len(headers) |->
                       LET lens == {Len(all[k][i]) : k \in DOMAIN all}
                       IN  CHOOSE m \in lens : \A n \in lens : n <= m]
      render_row(row) == join(<<" ","|"," ">>, [i \in 1..Len(row) |-> ljust(row[i], col_widths[i])])
  IN  << render_row(headers),
         join(<<"-","+","-">>, [i \in 1..Len(headers) |-> [k \in 1..col_widths[i] |-> "-"]]) >>
      \o [k \in 1..Len(rows) |-> render_row(rows[k])]

\* The block that gives the troubleshooting sub-header to every record.
render_cli_always_troubleshooting(sw, include_cli) ==
  IF ~include_cli THEN <<>>
  ELSE << <<"[">> \o sw.vendor \o <<" ">> \o sw.model \o <<"]">> >>
       \o extend_all([i \in 1..Len(sw.cli_sections) |->
                        << <<" "," ">> \o sw.cli_sections[i][1] \o <<":">> >>
                        \o [k \in 1..Len(sw.cli_sections[i][2]) |->
                              <<" "," "," "," ">> \o sw.cli_sections[i][2][k]]])
       \o << <<" "," ","T","r","o","u","b","l","e","s","h","o","o","t","i","n","g",":">> >>
       \o [k \in 1..Len(sw.troubleshooting) |-> <<" "," "," "," ">> \o sw.troubleshooting[k]]
       \o << <<>> >>

\* format_table.render_cli(sw)
render_cli(sw, include_cli) ==
  IF ~include_cli THEN <<>>
  ELSE << <<"[">> \o sw.vendor \o <<" ">> \o sw.model \o <<"]">> >>
       \o extend_all([i \in 1..Len(sw.cli_sections) |->
                        << <<" "," ">> \o sw.cli_sections[i][1] \o <<":">> >>
                        \o [k \in 1..Len(sw.cli_sections[i][2]) |->
                              <<" "," "," "," ">> \o sw.cli_sections[i][2][k]]])
       \o (IF sw.troubleshooting # <<>>
           THEN << <<" "," ","T","r","o","u","b","l","e","s","h","o","o","t","i","n","g",":">> >>
                \o [k \in 1..Len(sw.troubleshooting) |-> <<" "," "," "," ">> \o sw.troubleshooting[k]]
           ELSE <<>>)
       \o << <<>> >>

\* [sw for sw in items if sw.vendor == vendor]
RECURSIVE subset_of(_, _)
subset_of(items, vendor) ==
  IF items = <<>> THEN <<>>
  ELSE (IF items[1].vendor = vendor THEN <<items[1]>> ELSE <<>>)
       \o subset_of(Tail(items), vendor)

\* The table of one list of records, with its snippets when they are asked for.
table_of(items, include_cli) ==
  render_rows([k \in 1..Len(items) |-> row_of(items[k])])
  \o (IF include_cli
      THEN << <<"C","o","n","f","i","g","u","r","a","t","i","o","n"," ","s","n","i","p","p","e","t","s",":">> >>
           \o extend_all([k \in 1..Len(items) |-> render_cli(items[k], include_cli)])
      ELSE <<>>)

\* format_table(items, include_cli, group_by_vendor)
format_table(items, include_cli, group_by_vendor) ==
  IF items = <<>> THEN << <<"N","o"," ","s","w","i","t","c","h","e","s"," ","m","a","t","c","h","e","d"," ","y","o","u","r"," ","c","r","i","t","e","r","i","a",".">> >>
  ELSE LET lines ==
             IF group_by_vendor
             THEN LET vendors == sorted({items[k].vendor : k \in DOMAIN items})
                  IN  extend_all([v \in 1..Len(vendors) |->
                         << <<"=","="," ">> \o vendors[v] \o <<" ","=","=">> >>
                         \o table_of(subset_of(items, vendors[v]), include_cli)])
             ELSE table_of(items, include_cli)
       IN  join_rstrip(lines)

\* ------------------------------------------------------------------------
\* The limit and the JSON export of main()
\* ------------------------------------------------------------------------

\* xs[:n]
slice_to(xs, n) ==
  IF n >= 0 THEN SubSeq(xs, 1, IF n < Len(xs) THEN n ELSE Len(xs))
  ELSE SubSeq(xs, 1, IF Len(xs) + n > 0 THEN Len(xs) + n ELSE 0)

\* The slice that hands the limit to the slice as it is given.
limited_unclamped(matches, limit) ==
  IF limit # None THEN slice_to(matches, limit.v) ELSE matches

\* if args.limit is not None: matches = matches[: max(0, args.limit)]
limited(matches, limit) ==
  IF limit # None
  THEN slice_to(matches, IF limit.v > 0 THEN limit.v ELSE 0)
  ELSE matches

\* The export that writes the three flags as the table words them.
asdict_yes_no(sw) ==
  [ vendor |-> PyStr(sw.vendor), model |-> PyStr(sw.model), ports |-> PyInt(sw.ports),
    poe |-> PyStr(IF sw.poe THEN <<"Y","e","s">> ELSE <<"N","o">>), layer |-> PyStr(sw.layer),
    managed |-> PyStr(IF sw.managed THEN <<"Y","e","s">> ELSE <<"N","o">>),
    stackable |-> PyStr(IF sw.stackable THEN <<"Y","e","s">> ELSE <<"N","o">>),
    uplink |-> PyStr(sw.uplink), uplink_count |-> PyInt(sw.uplink_count),
    poe_budget |-> sw.poe_budget, cli_sections |-> PyDict(sw.cli_sections),
    troubleshooting |-> PyList(sw.troubleshooting), notes |-> PyStr(sw.notes) ]

\* asdict(sw) as json.dump writes it: the JSON object of the thirteen fields,
\* each with the JSON type of its Python value.  A JSON text is held as the
\* value it denotes, which is what json.load gives back.
asdict(sw) ==
  [ vendor |-> PyStr(sw.vendor), model |-> PyStr(sw.model), ports |-> PyInt(sw.ports),
    poe |-> PyBool(sw.poe), layer |-> PyStr(sw.layer), managed |-> PyBool(sw.managed),
    stackable |-> PyBool(sw.stackable), uplink |-> PyStr(sw.uplink),
    uplink_count |-> PyInt(sw.uplink_count), poe_budget |-> sw.poe_budget,
    cli_sections |-> PyDict(sw.cli_sections),
    troubleshooting |-> PyList(sw.troubleshooting), notes |-> PyStr(sw.notes) ]

\* [asdict(sw) for sw in matches]
json_dump(matches) == [k \in 1..Len(matches) |-> asdict(matches[k])]

\* ------------------------------------------------------------------------
\* The form shell (src/web_app.py)
\* ------------------------------------------------------------------------

\* x or None
or_none(x) == IF bool(x) THEN x ELSE None

\* None if choice == "Any" else choice
any_is_none(choice) == IF choice = <<"A","n","y">> THEN None ELSE PyStr(choice)

\* _load_uploaded_catalog(uploaded_file), data being the parsed content of
\* the upload: the catalog and the exception reported, None if none.
load_uploaded_catalog(uploaded_file, data) ==
  IF ~bool(uploaded_file)
  THEN [catalog |-> load_catalog(None, data).v, upload_error |-> None]
  ELSE LET r == load_catalog(uploaded_file, data)
       IN  IF r.ok THEN [catalog |-> r.v, upload_error |-> None]
           ELSE [catalog |-> load_catalog(None, data).v, upload_error |-> PyStr(r.exc)]

\* _build_args(...)
build_args(vendor, model, keyword, layer, min_ports, max_ports, poe, managed, stackable, output, include_cli, group_by_vendor, limit) ==
  [ catalog |-> None,
    vendor |-> vendor,
    model |-> or_none(PyStr(model)),
    keyword |-> or_none(PyStr(keyword)),
    layer |-> layer,
    min_ports |-> or_none(min_ports),
    max_ports |-> or_none(max_ports),
    poe |-> poe,
    managed |-> managed,
    stackable |-> stackable,
    output |-> output,
    include_cli |-> include_cli,
    group_by_vendor |-> group_by_vendor,
    ask |-> None,
    limit |-> limit ]

\* The args main() of the form shell builds from the widgets.
form_args(form, widgets) ==
  build_args(any_is_none(form.vendor_choice),
             form.model,
             form.keyword,
             any_is_none(form.layer),
             or_none(PyInt(form.min_ports)),
             or_none(PyInt(form.max_ports)),
             any_is_none(form.poe),
             any_is_none(form.managed),
             any_is_none(form.stackable),
             widgets.output,
             widgets.include_cli,
             widgets.group_by_vendor,
             or_none(PyInt(widgets.limit)))

\* What is written for the records shown: the lines of the table, or the
\* JSON array.
display(matches, options) ==
  IF options.output = <<"j","s","o","n">>
  THEN [t |-> "json", v |-> json_dump(matches)]
  ELSE [t |-> "text", v |-> format_table(matches, options.include_cli, options.group_by_vendor)]

\* ------------------------------------------------------------------------
\* Inputs: external catalog documents
\* ------------------------------------------------------------------------

\* Objects of external catalogs.  Every field given.
ItemFull ==
  [ vendor |-> PyStr(<<"C","i","s","c","o">>), model |-> PyStr(<<"C","9","3","0","0">>), ports |-> PyInt(48),
    poe |-> PyBool(TRUE), layer |-> PyStr(<<"L","3">>), managed |-> PyBool(TRUE),
    stackable |-> PyBool(TRUE), uplink |-> PyStr(<<"4","x","1","0","G">>), uplink_count |-> PyInt(4),
    poe_budget |-> PyInt(715),
    cli_sections |-> PyDict(<< << <<"U","p","l","i","n","k"," ","t","r","u","n","k"," ","(","e","x","a","m","p","l","e",")">>, << <<"v","l","a","n"," ","1","0">>, <<"e","n","d">> >> >>,
                               << <<"S","a","v","e">>, << <<"w","r","i","t","e"," ","m","e","m","o","r","y">> >> >> >>),
    troubleshooting |-> PyList(<< <<"s","h","o","w"," ","p","o","w","e","r"," ","i","n","l","i","n","e">>, <<"s","h","o","w"," ","p","o","e">> >>),
    notes |-> PyStr(<<"C","o","r","e">>) ]

\* Only the required fields; every optional field takes its default.
ItemMinimal ==
  [ vendor |-> PyStr(<<"c","i","s","c","o">>), model |-> PyStr(<<"G","S","1","0","8">>), ports |-> PyInt(8),
    poe |-> PyBool(FALSE), layer |-> PyStr(<<"L","2">>), managed |-> PyBool(FALSE),
    stackable |-> PyBool(FALSE) ]

\* ports given as a numeric string, poe as a number, managed as a word,
\* uplink_count with a fraction.
ItemCoerced ==
  [ vendor |-> PyStr(<<"H","P","E">>), model |-> PyStr(<<"2","9","2","0">>), ports |-> PyStr(<<" ","2","4">>),
    poe |-> PyInt(1), layer |-> PyStr(<<"l","3">>), managed |-> PyStr(<<"n","o">>),
    stackable |-> PyBool(FALSE), uplink_count |-> PyFloat(25), poe_budget |-> None,
    troubleshooting |-> PyList(<<>>), notes |-> PyStr(<<"P","o","E"," ","s","t","a","c","k">>) ]

\* Objects with a required field missing, or holding a value of another type.
ItemNoPorts == [f \in DOMAIN ItemMinimal \ {"ports"} |-> ItemMinimal[f]]
ItemNoStackable == [f \in DOMAIN ItemFull \ {"stackable"} |-> ItemFull[f]]
ItemPortsWord == [ItemMinimal EXCEPT !["ports"] = PyStr(<<"m","a","n","y">>)]
ItemPortsNull == [ItemMinimal EXCEPT !["ports"] = None]

Items ==
  {ItemFull, ItemMinimal, ItemCoerced,
   ItemNoPorts, ItemNoStackable, ItemPortsWord, ItemPortsNull}

\* The documents: arrays of at most MaxCatalog objects.
Documents == UNION {[1..n -> Items] : n \in 0..MaxCatalog}

\* --catalog: absent, or the path of a file.
Paths == {None, PyStr(<<"m","y",".","j","s","o","n">>)}


\* ------------------------------------------------------------------------
\* Inputs: command-line options
\* ------------------------------------------------------------------------

Criteria ==
  {"vendor", "model", "keyword", "min_ports", "max_ports", "layer", "poe", "managed",
   "stackable"}

\* The values an option takes when it is given.
Given ==
  [ vendor |-> {PyStr(<<"c","i","s","c","o">>)},
    model |-> {PyStr(<<"c","9","3">>)},
    keyword |-> {PyStr(<<"P","O","E">>), PyStr(<<"E","x","a","m","p","l","e">>)},
    min_ports |-> {PyInt(0), PyInt(24)},
    max_ports |-> {PyInt(0), PyInt(24)},
    layer |-> {PyStr(<<"L","3">>)},
    poe |-> {PyStr(<<"y","e","s">>), PyStr(<<"N","O">>), PyStr(<<"a","n","y">>)},
    managed |-> {PyStr(<<"y","e","s">>), PyStr(<<"n","o">>)},
    stackable |-> {PyStr(<<"y","e","s">>), PyStr(<<"n","o">>)} ]

\* The options when none is given.
NoArgs ==
  [ vendor |-> None, model |-> None, keyword |-> None, min_ports |-> None,
    max_ports |-> None, layer |-> None, poe |-> None, managed |-> None,
    stackable |-> None, ask |-> None ]

\* The option sets giving exactly the criteria of the set given.
ArgsGiving(given) ==
  { [f \in DOMAIN NoArgs |-> IF f \in given THEN choice[f] ELSE None] :
      choice \in { c \in [given -> UNION {Given[f] : f \in given}] :
                     \A f \in given : c[f] \in Given[f] } }

\* The option sets of a run that filters: at most MaxCriteria criteria given,
\* --ask absent.
FilterArgs ==
  UNION { ArgsGiving(given) : given \in {g \in SUBSET Criteria : Cardinality(g) <= MaxCriteria} }

\* The words questions are made of, in the order they appear in a question.
QuestionWords ==
  << <<"C","i","s","c","o">>, <<"C","9","3","0","0">>, <<"P","o","E">>, <<"S","t","a","c","k","a","b","l","e">>, <<"L","3">>, <<"L","a","y","e","r"," ","3">>,
     <<"t","r","o","u","b","l","e","s","h","o","o","t","i","n","g">>, <<"d","i","a","g","n","o","s","e">>, <<"u","p","l","i","n","k","s">>, <<"s","w","i","t","c","h">> >>

\* Longest question, in words, apart from the question made of every word.
MaxWords == 2

\* The words of QuestionWords at the positions in idx, in order, joined by spaces.
RECURSIVE question_of(_, _)
question_of(idx, i) ==
  IF i > Len(QuestionWords) THEN <<>>
  ELSE LET rest == question_of(idx, i + 1)
       IN  IF i \notin idx THEN rest
           ELSE IF rest = <<>> THEN QuestionWords[i]
           ELSE QuestionWords[i] \o <<" ">> \o rest

\* --ask: the non-empty questions of at most MaxWords words, and the question
\* made of every word.
Questions ==
  { question_of(idx, 1) :
      idx \in { s \in SUBSET (1..Len(QuestionWords)) :
                  s # {} /\ (Cardinality(s) <= MaxWords \/ Cardinality(s) = Len(QuestionWords)) } }

\* The option sets of a run that asks: the filter options are ignored.
AskArgs == { [NoArgs EXCEPT !.ask = PyStr(q)] : q \in Questions }

\* ------------------------------------------------------------------------
\* Inputs: the runs that display their result
\* ------------------------------------------------------------------------

\* Largest --limit given, and largest value of the form's result limit.
MaxLimit == 2

\* A record with snippets and no troubleshooting entry.
ItemAccess ==
  [ vendor |-> PyStr(<<"C","i","s","c","o">>), model |-> PyStr(<<"C","9","2","0","0","L">>), ports |-> PyInt(24),
    poe |-> PyBool(FALSE), layer |-> PyStr(<<"L","2">>), managed |-> PyBool(TRUE),
    stackable |-> PyBool(FALSE), uplink |-> PyStr(<<"4","x","1","G">>), uplink_count |-> PyInt(4),
    cli_sections |-> PyDict(<< << <<"V","L","A","N">>, << <<"v","l","a","n"," ","2","0">> >> >> >>),
    troubleshooting |-> PyList(<<>>) ]

\* Four records of three vendors, not in the order of their vendors, the two
\* of one vendor apart.
Inventory == <<ItemCoerced, ItemFull, ItemMinimal, ItemAccess>>

\* The documents of the runs that display their result.
ShowDocuments == {<<>>, <<ItemAccess>>, Inventory, <<ItemFull, ItemNoPorts>>}

\* The option sets of the command-line runs that display their result.
ShowArgs ==
  { NoArgs,
    [NoArgs EXCEPT !.poe = PyStr(<<"y","e","s">>)],
    [NoArgs EXCEPT !.stackable = PyStr(<<"n","o">>)],
    [NoArgs EXCEPT !.max_ports = PyInt(24)],
    [NoArgs EXCEPT !.keyword = PyStr(<<"P","O","E">>)],
    [NoArgs EXCEPT !.vendor = PyStr(<<"c","i","s","c","o">>)] }

\* --limit, --output, --include-cli, --group-by-vendor
ShowOptions ==
  [ limit : {None} \cup {PyInt(n) : n \in -1..MaxLimit},
    output : {<<"t","a","b","l","e">>, <<"j","s","o","n">>},
    include_cli : BOOLEAN,
    group_by_vendor : BOOLEAN ]

\* The options before main() reads them.
NoOptions ==
  [ limit |-> None, output |-> <<"t","a","b","l","e">>, include_cli |-> FALSE, group_by_vendor |-> FALSE ]

\* The form as it is first drawn: every select box on "Any", every text
\* empty, every number 0.
BlankForm ==
  [ vendor_choice |-> <<"A","n","y">>, model |-> <<>>, layer |-> <<"A","n","y">>, poe |-> <<"A","n","y">>,
    keyword |-> <<>>, min_ports |-> 0, max_ports |-> 0, managed |-> <<"A","n","y">>,
    stackable |-> <<"A","n","y">> ]

\* The form with at most one of its criteria widgets set; the vendor box
\* offers the vendors of the catalog.
WebForms(cat) ==
  { BlankForm,
    [BlankForm EXCEPT !.poe = <<"y","e","s">>],
    [BlankForm EXCEPT !.stackable = <<"n","o">>],
    [BlankForm EXCEPT !.max_ports = 24],
    [BlankForm EXCEPT !.keyword = <<"P","O","E">>] }
  \cup { [BlankForm EXCEPT !.vendor_choice = v] :
           v \in {w \in {cat[k].vendor : k \in DOMAIN cat} :
                    \A k \in DOMAIN cat : w = cat[k].vendor \/ str_lt(w, cat[k].vendor)} }

\* The display widgets of the form; the result limit is a number from 0 up.
WebOptions ==
  [ limit : 0..MaxLimit,
    output : {<<"t","a","b","l","e">>, <<"j","s","o","n">>},
    include_cli : BOOLEAN,
    group_by_vendor : BOOLEAN ]

\* The questions typed into the form.
WebQuestions == {<<>>, <<"P","o","E"," ","L","3">>, <<"c","o","n","s","o","l","e"," ","c","a","b","l","e">>}
\* ------------------------------------------------------------------------
\* State
\* ------------------------------------------------------------------------

VARIABLES
  pc,        \* where main() is: "start", "loaded", "filtered", "shown",
             \* "answered", "raised"; in the form shell "web_loaded",
             \* "web_results", "web_answered"
  path,      \* args.catalog; in the form shell the uploaded file
  data,      \* the parsed content of the file at path
  catalog,   \* main's catalog
  args,      \* the options main() reads after the load
  matches,   \* main's matches, as filter_catalog returned them
  ranked,    \* answer_question's ranked
  answer,    \* the text answer_question returned
  exc,       \* the exception that ended main(), None if none
  opts,      \* args.limit, args.output, args.include_cli, args.group_by_vendor
  limit_input,  \* the limit as the user gave it: the value of --limit, or
             \* the number in the form's result limit field; None if none
  shown,     \* the matches after the limit
  printed,   \* what main() wrote for them, None before
  upload_error,  \* the exception the form shell reports for the upload
  question   \* the question typed into the form, None before

vars ==
  <<pc, path, data, catalog, args, matches, ranked, answer, exc,
    opts, limit_input, shown, printed, upload_error, question>>

shows == <<opts, limit_input, shown, printed>>
webform == <<upload_error, question>>

Init ==
  /\ pc = "start"
  /\ path = None
  /\ data = <<>>
  /\ catalog = <<>>
  /\ args = NoArgs
  /\ matches = <<>>
  /\ ranked = <<>>
  /\ answer = <<>>
  /\ exc = None
  /\ opts = NoOptions
  /\ limit_input = None
  /\ shown = <<>>
  /\ printed = None
  /\ upload_error = None
  /\ question = None

\* main(): catalog = load_catalog(args.catalog), the file holding one of documents
LoadFrom(documents) ==
  /\ pc = "start"
  /\ \E p \in Paths, d \in documents :
       /\ bool(p) \/ d = <<>>
       /\ path' = p
       /\ data' = d
       /\ LET r == load_catalog(p, d)
          IN  IF r.ok
              THEN /\ catalog' = r.v
                   /\ exc' = None
                   /\ pc' = "loaded"
              ELSE /\ catalog' = <<>>
                   /\ exc' = PyStr(r.exc)
                   /\ pc' = "raised"
  /\ UNCHANGED <<args, matches, ranked, answer, shows, webform>>

LoadCatalog == LoadFrom(Documents)

\* main(): matches = filter_catalog(catalog, args), when --ask is not given,
\* the options being one of options
FilterFrom(options) ==
  /\ pc = "loaded"
  /\ \E a \in options :
       /\ ~bool(a.ask)
       /\ args' = a
       /\ matches' = filter_catalog(catalog, a)
  /\ pc' = "filtered"
  /\ UNCHANGED <<path, data, catalog, ranked, answer, exc, shows, webform>>

FilterCatalog == FilterFrom(FilterArgs)

\* main(): print(answer_question(args.ask, catalog)); return, when --ask is given
AnswerQuestion ==
  /\ pc = "loaded"
  /\ \E a \in AskArgs :
       /\ bool(a.ask)
       /\ args' = a
       /\ LET r == answer_question(a.ask.v, catalog)
          IN  /\ ranked' = r.ranked
              /\ answer' = r.v
              /\ exc' = IF r.ok THEN None ELSE PyStr(r.exc)
              /\ pc' = IF r.ok THEN "answered" ELSE "raised"
  /\ UNCHANGED <<path, data, catalog, matches, shows, webform>>

Next ==
  \/ LoadCatalog
  \/ FilterCatalog
  \/ AnswerQuestion

Spec == Init /\ [][Next]_vars

\* ------------------------------------------------------------------------
\* The runs that display their result
\* ------------------------------------------------------------------------

LoadShown == LoadFrom(ShowDocuments)

FilterShown == FilterFrom(ShowArgs)

\* main(): the limit, then json.dump or print(format_table(...))
ShowResults ==
  /\ pc = "filtered"
  /\ \E o \in ShowOptions :
       /\ opts' = o
       /\ limit_input' = o.limit
       /\ shown' = limited(matches, o.limit)
       /\ printed' = display(limited(matches, o.limit), o)
  /\ pc' = "shown"
  /\ UNCHANGED <<path, data, catalog, args, matches, ranked, answer, exc, webform>>

\* web_app.main(): catalog, upload_error = _load_uploaded_catalog(uploaded_file)
WebLoad ==
  /\ pc = "start"
  /\ \E p \in Paths, d \in ShowDocuments :
       /\ bool(p) \/ d = <<>>
       /\ path' = p
       /\ data' = d
       /\ LET r == load_uploaded_catalog(p, d)
          IN  /\ catalog' = r.catalog
              /\ upload_error' = r.upload_error
  /\ pc' = "web_loaded"
  /\ UNCHANGED <<args, matches, ranked, answer, exc, shows, question>>

\* web_app.main(): args = _build_args(...), matches = filter_catalog(catalog,
\* args), _display_results(matches, args)
WebResults ==
  /\ pc = "web_loaded"
  /\ \E f \in WebForms(catalog), w \in WebOptions :
       LET a == form_args(f, w)
           found == filter_catalog(catalog, a)
       IN  /\ args' = [k \in DOMAIN NoArgs |-> a[k]]
           /\ opts' = [k \in DOMAIN NoOptions |-> a[k]]
           /\ limit_input' = PyInt(w.limit)
           /\ matches' = found
           /\ shown' = limited(found, a.limit)
           /\ printed' = display(limited(found, a.limit), a)
  /\ pc' = "web_results"
  /\ UNCHANGED <<path, data, catalog, ranked, answer, exc, webform>>

\* The answer whose sort is done on the catalog itself.
WebAnswerSortingCatalog ==
  /\ pc = "web_results"
  /\ \E q \in WebQuestions :
       /\ question' = PyStr(q)
       /\ LET r == answer_question(q, catalog)
          IN  /\ ranked' = r.ranked
              /\ catalog' = [i \in DOMAIN r.ranked |-> r.ranked[i][2]]
              /\ answer' = r.v
              /\ exc' = IF r.ok THEN None ELSE PyStr(r.exc)
              /\ pc' = IF r.ok THEN "web_answered" ELSE "raised"
  /\ UNCHANGED <<path, data, args, matches, shows, upload_error>>

\* web_app.main(): st.info(answer_question(question, catalog)), when the
\* button is pressed
WebAnswer ==
  /\ pc = "web_results"
  /\ \E q \in WebQuestions :
       /\ question' = PyStr(q)
       /\ LET r == answer_question(q, catalog)
          IN  /\ ranked' = r.ranked
              /\ answer' = r.v
              /\ exc' = IF r.ok THEN None ELSE PyStr(r.exc)
              /\ pc' = IF r.ok THEN "web_answered" ELSE "raised"
  /\ UNCHANGED <<path, data, catalog, args, matches, shows, upload_error>>

NextShow ==
  \/ LoadShown
  \/ FilterShown
  \/ ShowResults
  \/ WebLoad
  \/ WebResults
  \/ WebAnswer

SpecShow == Init /\ [][NextShow]_vars

\* ------------------------------------------------------------------------
\* Properties
\* ------------------------------------------------------------------------

Filtered == pc = "filtered"
Asked == args.ask # None
Range(s) == {s[i] : i \in DOMAIN s}

\* s occurs somewhere in t, letter case ignored: at some offset k every
\* letter of s is the letter of t at that place, both taken in lower case.
Occurs(s, t) ==
  LET a == lower(s)
      b == lower(t)
  IN  \E k \in 0..(Len(b) - Len(a)) : \A j \in 1..Len(a) : a[j] = b[k + j]

\* The strings of a sequence of strings, one after the other with a space
\* between neighbours.
RECURSIVE Spaced(_)
Spaced(parts) ==
  IF parts = <<>> THEN <<>>
  ELSE IF Len(parts) = 1 THEN Head(parts)
  ELSE Head(parts) \o <<" ">> \o Spaced(Tail(parts))

\* All command strings of a record's CLI sections, section after section.
RECURSIVE AllCommands(_)
AllCommands(sections) ==
  IF sections = <<>> THEN <<>>
  ELSE Spaced(<<Spaced(Head(sections)[2])>>
              \o (IF Len(sections) > 1 THEN <<AllCommands(Tail(sections))>> ELSE <<>>))

\* The text the keyword criterion searches: vendor, model, layer, uplink,
\* notes, the troubleshooting entries and the CLI command strings, joined by
\* spaces; no section title.
ComposedText(r) ==
  Spaced(<< r.vendor, r.model, r.layer, r.uplink, r.notes,
            Spaced(r.troubleshooting), AllCommands(r.cli_sections) >>)

\* Letter case of every letter switched.
SwapCase(s) ==
  [i \in 1..Len(s) |->
     IF s[i] \in DOMAIN LowerMap THEN LowerMap[s[i]]
     ELSE IF \E u \in DOMAIN LowerMap : LowerMap[u] = s[i]
          THEN CHOOSE u \in DOMAIN LowerMap : LowerMap[u] = s[i]
          ELSE s[i]]

\* A selector that requires a value: yes or no, in any letter case.
Requires(selector, value) ==
  /\ selector # None
  /\ lower(selector.v) = (IF value THEN <<"y","e","s">> ELSE <<"n","o">>)

\* The record r satisfies every criterion that a supplies.
Satisfies(r, a) ==
  /\ a.vendor # None => lower(r.vendor) = lower(a.vendor.v)
  /\ a.model # None => Occurs(a.model.v, r.model)
  /\ a.keyword # None => Occurs(a.keyword.v, ComposedText(r))
  /\ a.min_ports # None => r.ports >= a.min_ports.v
  /\ a.max_ports # None => r.ports <= a.max_ports.v
  /\ a.layer # None => lower(r.layer) = lower(a.layer.v)
  /\ Requires(a.poe, TRUE) => r.poe
  /\ Requires(a.poe, FALSE) => ~r.poe
  /\ Requires(a.managed, TRUE) => r.managed
  /\ Requires(a.managed, FALSE) => ~r.managed
  /\ Requires(a.stackable, TRUE) => r.stackable
  /\ Requires(a.stackable, FALSE) => ~r.stackable

\* C1: every record filter_catalog returns satisfies every supplied
\* criterion, a port bound of 0 included.
C1_ReturnedSatisfyAll ==
  Filtered => \A i \in DOMAIN matches : Satisfies(matches[i], args)

\* s can be obtained from t by deleting elements.
RECURSIVE IsSubsequence(_, _)
IsSubsequence(s, t) ==
  IF s = <<>> THEN TRUE
  ELSE IF t = <<>> THEN FALSE
  ELSE IF Head(s) = Head(t) THEN IsSubsequence(Tail(s), Tail(t))
  ELSE IsSubsequence(s, Tail(t))

\* C2: the output of filter_catalog is a subsequence of its input: input
\* records only, none more often than in the input, in the input's order.
C2_OutputIsSubsequence ==
  Filtered => IsSubsequence(matches, catalog)

\* A filter that dropped a record between two different records it kept.
C2_Witness ==
  /\ Filtered
  /\ Len(matches) >= 2
  /\ matches[1] # matches[2]
  /\ \E i, j, k \in DOMAIN catalog :
       /\ i < j /\ j < k
       /\ catalog[i] = matches[1] /\ catalog[k] = matches[2]
       /\ catalog[j] \notin Range(matches)

\* C3: with every criterion unset filter_catalog returns its input, the same
\* records in the same order.
C3_UnsetIsIdentity ==
  (Filtered /\ \A c \in Criteria : args[c] = None) => matches = catalog

\* An unfiltered run over a catalog of different records.
C3_Witness ==
  /\ Filtered
  /\ \A c \in Criteria : args[c] = None
  /\ Len(catalog) >= 2
  /\ catalog[1] # catalog[2]
  /\ \E i \in DOMAIN catalog : ~catalog[i].poe \/ ~catalog[i].managed \/ ~catalog[i].stackable
  /\ matches = catalog

Yes == PyStr(<<"y","e","s">>)
No == PyStr(<<"n","o">>)

\* With attribute c ignored in the run: the results for c required true and
\* required false are disjoint, and between them hold the records of the run.
Exhaustive(c) ==
  LET yes == filter_catalog(catalog, [args EXCEPT ![c] = Yes])
      no == filter_catalog(catalog, [args EXCEPT ![c] = No])
  IN  /\ Range(yes) \cap Range(no) = {}
      /\ Range(yes) \cup Range(no) = Range(matches)
      /\ Len(yes) + Len(no) = Len(matches)

\* C4: for poe, managed and stackable, the other criteria fixed, require-true
\* and require-false select disjoint results that together are the result of
\* ignoring the attribute.
C4_TriStateExhaustive ==
  Filtered => \A c \in {"poe", "managed", "stackable"} : args[c] = None => Exhaustive(c)

\* A run ignoring PoE, another criterion given, whose records are some with
\* and some without PoE, but not the whole catalog.
C4_Witness ==
  /\ Filtered
  /\ args.poe = None
  /\ \E c \in Criteria : args[c] # None
  /\ Len(matches) < Len(catalog)
  /\ filter_catalog(catalog, [args EXCEPT !.poe = Yes]) # <<>>
  /\ filter_catalog(catalog, [args EXCEPT !.poe = No]) # <<>>

RuleScore(r, q) ==
  (IF Occurs(r.vendor, q) THEN 3 ELSE 0)
  + (IF Occurs(r.model, q) THEN 3 ELSE 0)
  + (IF Occurs(<<"p","o","e">>, q) /\ r.poe THEN 2 ELSE 0)
  + (IF Occurs(<<"s","t","a","c","k">>, q) /\ r.stackable THEN 2 ELSE 0)
  + (IF (Occurs(<<"l","a","y","e","r"," ","3">>, q) \/ Occurs(<<"l","3">>, q)) /\ lower(r.layer) = <<"l","3">> THEN 1 ELSE 0)
  + (IF (Occurs(<<"t","r","o","u","b","l","e","s","h","o","o","t">>, q) \/ Occurs(<<"d","i","a","g","n","o","s","e">>, q)) /\ Len(r.troubleshooting) >= 1
     THEN 1 ELSE 0)
  + (IF Occurs(<<"u","p","l","i","n","k">>, q) THEN 1 ELSE 0)

\* C6: the score of every record is the sum of the seven rule terms, an
\* integer from 0 to 13.
C6_ScoreIsRuleSum ==
  Asked => \A k \in DOMAIN ranked :
              /\ ranked[k][1] = RuleScore(ranked[k][2], args.ask.v)
              /\ ranked[k][1] \in 0..13

\* A question that earns one record every term and another record some of
\* the terms only.
C6_Witness ==
  /\ Asked
  /\ \E k \in DOMAIN ranked : ranked[k][1] = 13
  /\ \E k \in DOMAIN ranked : ranked[k][1] \in 1..12

\* The pairs of a sequence of (score, record) pairs whose score is n, in order.
WithScore(pairs, n) == SelectSeq(pairs, LAMBDA p : p[1] = n)

\* The (score, record) pairs of the catalog, in catalog order.
CatalogScores == [i \in DOMAIN catalog |-> <<RuleScore(catalog[i], args.ask.v), catalog[i]>>]

\* The earliest record with the highest score among (score, record) pairs.
EarliestBest(pairs) ==
  pairs[CHOOSE i \in DOMAIN pairs :
          /\ \A j \in DOMAIN pairs : pairs[j][1] <= pairs[i][1]
          /\ \A j \in 1..(i - 1) : pairs[j][1] < pairs[i][1]][2]

\* C7: ranked is in non-increasing score order, records with equal scores in
\* catalog order, and a suggestion is built from the earliest catalog record
\* with the highest score.
C7_RankedStable ==
  Asked =>
    LET scores == CatalogScores
    IN  /\ Len(ranked) = Len(catalog)
        /\ \A k, l \in DOMAIN ranked : k < l => ranked[k][1] >= ranked[l][1]
        /\ \A n \in 0..13 : WithScore(ranked, n) = WithScore(scores, n)
        /\ (pc = "answered" /\ answer # NoMatchMessage) =>
              /\ ranked[1][2] = EarliestBest(scores)
              /\ answer = join(<<"\n">>, suggestion_lines(EarliestBest(scores)))

\* Different records tie for the highest score behind a catalog record with a
\* lower score, and records with lower scores tie as well.
C7_Witness ==
  /\ pc = "answered"
  /\ Len(ranked) >= 4
  /\ ranked[1][1] = ranked[2][1]
  /\ ranked[1][2] # ranked[2][2]
  /\ RuleScore(catalog[1], args.ask.v) < ranked[1][1]
  /\ \E k \in 3..(Len(ranked) - 1) :
       /\ ranked[k][1] < ranked[1][1]
       /\ ranked[k][1] = ranked[k + 1][1]
       /\ ranked[k][2] # ranked[k + 1][2]

\* The highest score over the catalog, 0 over the empty catalog.
MaxScore(pairs) ==
  IF pairs = <<>> THEN 0
  ELSE CHOOSE m \in 0..13 :
         /\ \E i \in DOMAIN pairs : pairs[i][1] = m
         /\ \A i \in DOMAIN pairs : pairs[i][1] <= m

ScoreTokens ==
  { <<"p","o","e">>, <<"s","t","a","c","k">>, <<"l","a","y","e","r"," ","3">>, <<"l","3">>, <<"t","r","o","u","b","l","e","s","h","o","o","t">>, <<"d","i","a","g","n","o","s","e">>, <<"u","p","l","i","n","k">> }

\* The question holds no recognized token and no record's vendor or model.
Unrecognized(cat, q) ==
  /\ \A tok \in ScoreTokens : ~Occurs(tok, q)
  /\ \A i \in DOMAIN cat : ~Occurs(cat[i].vendor, q) /\ ~Occurs(cat[i].model, q)

\* C8: answer_question returns the fixed guidance message exactly when the
\* highest score is 0 and a suggestion built from a highest-scoring record
\* otherwise; an unrecognized question always gets the guidance message.
C8_GuidanceIffZero ==
  Asked =>
    LET scores == CatalogScores
    IN  /\ pc = "answered"
        /\ answer = NoMatchMessage <=> MaxScore(scores) = 0
        /\ answer # NoMatchMessage =>
             \E i \in DOMAIN scores :
                /\ scores[i][1] = MaxScore(scores)
                /\ answer = join(<<"\n">>, suggestion_lines(scores[i][2]))
        /\ Unrecognized(catalog, args.ask.v) => answer = NoMatchMessage

\* C9: filter_catalog and answer_question never end in an error, the empty
\* catalog included: the first returns a sequence, the second a text.
C9_NoErrors ==
  (Filtered \/ Asked) => (pc # "raised" /\ exc = None)

\* A required field is missing from the object, or ports holds a non-integer,
\* or poe, managed or stackable holds a non-boolean.
Malformed(item) ==
  \/ \E f \in Range(RequiredFields) : f \notin DOMAIN item
  \/ item["ports"].t # "int"
  \/ \E f \in {"poe", "managed", "stackable"} : item[f].t # "bool"

\* C10: loading a document with a malformed record fails with
\* MalformedCatalogError and returns no catalog, not even the records ahead
\* of the malformed one.
C10_MalformedAborts ==
  (pc # "start" /\ bool(path) /\ \E i \in DOMAIN data : Malformed(data[i])) =>
     /\ exc = PyStr("MalformedCatalogError")
     /\ pc = "raised"
     /\ catalog = <<>>

\* ------------------------------------------------------------------------
\* Properties of the runs that display their result
\* ------------------------------------------------------------------------

\* The run has displayed its result.
Displayed == printed # None

\* The JSON array was written.
Exported == Displayed /\ printed.t = "json"

\* The table was written.
Tabled == Displayed /\ printed.t = "text"

\* C11: an exported result, loaded with load_catalog and filtered again with
\* the same criteria, is the exported result: the same records in the same
\* order, every field with the value it had.
C11_ExportRoundTrip ==
  Exported =>
    LET again == load_catalog(PyStr(<<"e","x","p","o","r","t",".","j","s","o","n">>), printed.v)
    IN  /\ again.ok
        /\ again.v = shown
        /\ filter_catalog(again.v, args) = shown

\* An export of two records or more under a criterion, with a record that
\* has a PoE budget, sections and troubleshooting entries and a record
\* without PoE and without budget.
C11_Witness ==
  /\ Exported
  /\ args # NoArgs
  /\ Len(shown) >= 2
  /\ Len(shown) < Len(catalog)
  /\ \E i \in DOMAIN shown :
       /\ shown[i].poe_budget # None
       /\ shown[i].cli_sections # <<>>
       /\ shown[i].troubleshooting # <<>>
  /\ \E i \in DOMAIN shown : ~shown[i].poe /\ shown[i].poe_budget = None

\* The numbers of a set of numbers, smallest first.
RECURSIVE Ordered(_)
Ordered(S) ==
  IF S = {} THEN <<>>
  ELSE LET least == CHOOSE m \in S : \A n \in S : m <= n
       IN  <<least>> \o Ordered(S \ {least})

\* A line "== <vendor> ==", and the vendor it names.
IsGroupHeader(line) ==
  /\ Len(line) >= 6
  /\ SubSeq(line, 1, 3) = <<"=","="," ">>
  /\ SubSeq(line, Len(line) - 2, Len(line)) = <<" ","=","=">>
GroupVendor(line) == SubSeq(line, 4, Len(line) - 3)

IsSnippetsLine(line) == line = <<"C","o","n","f","i","g","u","r","a","t","i","o","n"," ","s","n","i","p","p","e","t","s",":">>

\* The cells of a table line, cut at the columns that the rule under the
\* table header marks with "+", each without the padding at its end.
Cells(line, rule) ==
  LET cuts == Ordered({i \in DOMAIN rule : rule[i] = "+"})
      padded == line \o [i \in 1..(Len(rule) - Len(line)) |-> " "]
  IN  [c \in 1..(Len(cuts) + 1) |->
         rstrip(SubSeq(padded,
                       IF c = 1 THEN 1 ELSE cuts[c - 1] + 2,
                       IF c = Len(cuts) + 1 THEN Len(rule) ELSE cuts[c] - 2))]

\* The place after the part of the text that starts at line i: the next
\* group header or snippets line, or the end of the text.
PartEnd(lines, i) ==
  LET later == {j \in (i + 1)..Len(lines) :
                  IsGroupHeader(lines[j]) \/ IsSnippetsLine(lines[j])} \cup {Len(lines) + 1}
  IN  CHOOSE m \in later : \A n \in later : m <= n

\* The rows, as cells, of the table whose header line is line t.
TableRows(lines, t) ==
  [k \in 1..(PartEnd(lines, t) - t - 2) |-> Cells(lines[t + 1 + k], lines[t + 1])]

\* The records of one vendor, in the order of the sequence.
OfVendor(records, vendor) ==
  LET at == Ordered({i \in DOMAIN records : records[i].vendor = vendor})
  IN  [j \in DOMAIN at |-> records[at[j]]]

\* The table was written, grouped by vendor, for one record or more.
Grouped == Tabled /\ opts.group_by_vendor /\ shown # <<>>

\* C12: the grouped table of a non-empty result has one "== <vendor> =="
\* header for each vendor of the result, the headers in the order of the
\* vendors as strings; the table under a header holds the rows of the
\* records of that vendor in result order, and these rows are, cell for
\* cell, the rows the ungrouped table gives the same records, so that every
\* record has its row in exactly one group.
C12_GroupedByVendor ==
  Grouped =>
    LET lines == printed.v
        at == Ordered({i \in DOMAIN lines : IsGroupHeader(lines[i])})
        vendors == [i \in DOMAIN at |-> GroupVendor(lines[at[i]])]
        flat == format_table(shown, opts.include_cli, FALSE)
        rows == TableRows(flat, 1)
        rows_of(vendor) ==
          LET own == Ordered({k \in DOMAIN shown : shown[k].vendor = vendor})
          IN  [j \in DOMAIN own |-> rows[own[j]]]
    IN  /\ Range(vendors) = {shown[k].vendor : k \in DOMAIN shown}
        /\ \A i, j \in DOMAIN vendors : i < j => str_lt(vendors[i], vendors[j])
        /\ Len(rows) = Len(shown)
        /\ \A k \in DOMAIN shown :
             rows[k][1] = shown[k].vendor /\ rows[k][2] = shown[k].model
        /\ \A i \in DOMAIN at :
             /\ TableRows(lines, at[i] + 1) = rows_of(vendors[i])
             /\ \A k \in 1..Len(rows_of(vendors[i])) :
                  TableRows(lines, at[i] + 1)[k][1] = vendors[i]

\* A grouped table of three vendors or more that the result does not list in
\* the order of their names, the records of one vendor apart in the result.
C12_Witness ==
  /\ Grouped
  /\ Cardinality({shown[k].vendor : k \in DOMAIN shown}) >= 3
  /\ \E i, j \in DOMAIN shown : i < j /\ str_lt(shown[j].vendor, shown[i].vendor)
  /\ \E i, j, k \in DOMAIN shown :
       /\ i < j /\ j < k
       /\ shown[i].vendor = shown[k].vendor
       /\ shown[i].vendor # shown[j].vendor

\* The lines of the sections of a record: for each section in its order a
\* sub-header, then its commands, indented.
RECURSIVE SectionLines(_)
SectionLines(sections) ==
  IF sections = <<>> THEN <<>>
  ELSE << <<" "," ">> \o sections[1][1] \o <<":">> >>
       \o [k \in DOMAIN sections[1][2] |-> <<" "," "," "," ">> \o sections[1][2][k]]
       \o SectionLines(Tail(sections))

\* The "Troubleshooting" sub-header and the troubleshooting commands, indented.
TroubleLines(r) ==
  << <<" "," ","T","r","o","u","b","l","e","s","h","o","o","t","i","n","g",":">> >>
  \o [k \in DOMAIN r.troubleshooting |-> <<" "," "," "," ">> \o r.troubleshooting[k]]

\* The detail block of a record as C13 states it: the troubleshooting
\* sub-header is there whether the record has entries or not.
StatedBlock(r) ==
  << <<"[">> \o r.vendor \o <<" ">> \o r.model \o <<"]">> >>
  \o SectionLines(r.cli_sections) \o TroubleLines(r) \o << <<>> >>

\* The detail block of a record: the troubleshooting sub-header is there
\* only when the record has a troubleshooting entry.
Block(r) ==
  << <<"[">> \o r.vendor \o <<" ">> \o r.model \o <<"]">> >>
  \o SectionLines(r.cli_sections)
  \o (IF r.troubleshooting # <<>> THEN TroubleLines(r) ELSE <<>>)
  \o << <<>> >>

\* The blocks of a sequence of records, one after the other.
RECURSIVE StatedBlocks(_)
StatedBlocks(records) ==
  IF records = <<>> THEN <<>>
  ELSE StatedBlock(records[1]) \o StatedBlocks(Tail(records))

RECURSIVE Blocks(_)
Blocks(records) ==
  IF records = <<>> THEN <<>>
  ELSE Block(records[1]) \o Blocks(Tail(records))

\* The table was written with detail blocks, for one record or more.
Detailed == Tabled /\ opts.include_cli /\ shown # <<>>

\* The places of the "Configuration snippets:" lines of the text written.
SnippetsAt == Ordered({i \in DOMAIN printed.v : IsSnippetsLine(printed.v[i])})

\* The lines between the i-th snippets line and the next group header or
\* the end of the text.
Snippets(i) ==
  SubSeq(printed.v, SnippetsAt[i] + 1, PartEnd(printed.v, SnippetsAt[i]) - 1)

\* The records of the table above the i-th snippets line: all the records
\* shown, or in a grouped table the records of the vendor of the group.
Snipped(i) ==
  IF ~opts.group_by_vendor THEN shown
  ELSE LET above == {j \in 1..SnippetsAt[i] : IsGroupHeader(printed.v[j])}
       IN  OfVendor(shown, GroupVendor(printed.v[CHOOSE m \in above : \A n \in above : n <= m]))

\* The blocks as the text holds them under its i-th snippets line: the text
\* ends without the blank line of its last block, as format_table strips the
\* end of what it returns.
AsWritten(i, blocks) ==
  IF i < Len(SnippetsAt) THEN blocks ELSE SubSeq(blocks, 1, Len(blocks) - 1)

\* C13 as stated: the lines under every snippets line are the blocks of the
\* records of its table, each block a header, the sections, the
\* troubleshooting sub-header with its commands, and a blank line, also for
\* a record with no troubleshooting entry.
C13_BlocksAsStated ==
  Detailed =>
    \A i \in DOMAIN SnippetsAt : Snippets(i) = AsWritten(i, StatedBlocks(Snipped(i)))

\* C13: the lines under every snippets line are the blocks of the records of
\* its table, each block a header, the sections, the troubleshooting
\* sub-header with its commands when the record has a troubleshooting entry
\* and no such sub-header when it has none, and a blank line.
C13_Blocks ==
  Detailed =>
    /\ Len(SnippetsAt) =
         (IF opts.group_by_vendor
          THEN Cardinality({shown[k].vendor : k \in DOMAIN shown}) ELSE 1)
    /\ \A i \in DOMAIN SnippetsAt : Snippets(i) = AsWritten(i, Blocks(Snipped(i)))
    /\ (\A k \in DOMAIN shown : shown[k].troubleshooting = <<>>) =>
         \A j \in DOMAIN printed.v : printed.v[j] # <<" "," ","T","r","o","u","b","l","e","s","h","o","o","t","i","n","g",":">>

\* Detail blocks of a record with sections and troubleshooting entries, of a
\* record with sections and no troubleshooting entry, and of a record with
\* neither.
C13_Witness ==
  /\ Detailed
  /\ \E i \in DOMAIN shown :
       shown[i].cli_sections # <<>> /\ shown[i].troubleshooting # <<>>
  /\ \E i \in DOMAIN shown :
       shown[i].cli_sections # <<>> /\ shown[i].troubleshooting = <<>>
  /\ \E i \in DOMAIN shown :
       shown[i].cli_sections = <<>> /\ shown[i].troubleshooting = <<>>

\* The first n elements of xs, all of them when xs has fewer.
Take(xs, n) == [i \in 1..(IF n < Len(xs) THEN n ELSE Len(xs)) |-> xs[i]]

\* The larger of two numbers.
Larger(m, n) == IF m >= n THEN m ELSE n

\* C14 as stated: whenever the user gives a limit, 0 included, the records
\* shown are the first max(0, limit) records of the filtered sequence.
C14_GivenLimitTruncates ==
  (Displayed /\ limit_input # None) =>
     shown = Take(filter_catalog(catalog, args), Larger(0, limit_input.v))

\* C14: when args.limit is set, the records shown are the first
\* max(0, limit) records of the filtered sequence, in order, and what is
\* written is written for them; a --limit of 0 or less shows no record; in
\* the form a result limit of 0 sets no limit and every filtered record is
\* shown.
C14_LimitAfterFilter ==
  Displayed =>
    /\ matches = filter_catalog(catalog, args)
    /\ opts.limit # None =>
         shown = Take(matches, Larger(0, opts.limit.v))
    /\ opts.limit = None => shown = matches
    /\ (pc = "shown" /\ limit_input # None /\ limit_input.v <= 0) => shown = <<>>
    /\ (pc # "shown" /\ limit_input.v = 0) => shown = matches
    /\ printed.t = "json" => [i \in DOMAIN printed.v |-> printed.v[i].model.v]
                                = [i \in DOMAIN shown |-> shown[i].model]

\* A limit that cuts the filtered sequence short, where cutting the catalog
\* first and filtering afterwards would have shown other records.
C14_Witness ==
  /\ Displayed
  /\ opts.limit # None
  /\ opts.limit.v > 0
  /\ opts.limit.v < Len(matches)
  /\ Len(matches) < Len(catalog)
  /\ shown # filter_catalog(Take(catalog, opts.limit.v), args)

\* C15: filter_catalog, format_table and answer_question leave the catalog
\* they are given as it was: the same records in the same order, every field
\* of every record unchanged.
C15_CatalogUntouched ==
  [][pc # "start" => catalog' = catalog]_vars

\* The three operations have run on one catalog, whose records have sections
\* and troubleshooting entries, and the ranking put the records in another
\* order than the catalog's.
C15_Witness ==
  /\ pc = "web_answered"
  /\ Tabled
  /\ matches # <<>>
  /\ Len(matches) < Len(catalog)
  /\ \E i \in DOMAIN catalog :
       catalog[i].cli_sections # <<>> /\ catalog[i].troubleshooting # <<>>
  /\ [i \in DOMAIN ranked |-> ranked[i][2]] # catalog

\* The number of places of xs that hold x.
Count(xs, x) == Cardinality({i \in DOMAIN xs : xs[i] = x})

\* C16: every record of the catalog that satisfies every supplied criterion
\* is in the output, as many times as it is in the catalog.
C16_Complete ==
  Filtered =>
    \A i \in DOMAIN catalog :
       Satisfies(catalog[i], args) =>
          Count(matches, catalog[i]) = Count(catalog, catalog[i])

\* min_ports 24 and layer L3 given: a record with exactly 24 ports is
\* returned and another record is left out.
C16_Witness ==
  /\ Filtered
  /\ args.min_ports = PyInt(24)
  /\ args.layer = PyStr(<<"L","3">>)
  /\ \E i \in DOMAIN matches : matches[i].ports = 24
  /\ matches # <<>>
  /\ Len(matches) < Len(catalog)

=============================================================================
